---- MODULE Spec2Model ----
(***************************************************************************)
(* The turn-bounded agent decision loop (workflow/InteractComp.py) and the *)
(* grader (benchmarks/InteractComp.py) of InteractComp.                    *)
(*                                                                         *)
(* Text is modelled as a sequence of one-character strings, so that the    *)
(* prefix tests, slices and strip() calls of the code are computed and not *)
(* assumed.                                                                *)
(***************************************************************************)
EXTENDS Integers, Sequences, FiniteSets, TLC

VARIABLES
    max_turns,    \* InteractCompAgent.max_turns
    problem_ok,   \* problem_data holds the keys "question" and "context"
    pc,           \* position of the __call__ coroutine
    turn,         \* loop variable of `for turn in range(self.max_turns)`
    history,      \* the transcript being built
    total_cost,   \* cost accumulator of the run
    pending,      \* turn_record handed to ask()/search(), awaiting the port
    ret,          \* <<>> until __call__ returns (final_answer, history, total_cost)
    calls,        \* log of the port invocations the run has made (observer)
    g_pc,         \* position of calculate_score
    judge,        \* what the judge port did for calculate_score
    score,        \* value calculate_score returned
    scorer,       \* evaluate_problem and what it calls: position, locals, result
    member_log,   \* what each committee member's evaluation did (observer)
    ua,           \* the UserAgent of an agent object that several runs use
    runs,         \* the runs of __call__ in progress on that agent object
    clarifier,    \* one call of UserAgent.answer: the agent's fields, position, result
    report,       \* download_csv_report: the results exported and the rows written
    human,        \* a HumanAgent and the queries put to it
    remind,       \* one run of RemindWorkflow.__call__
    auth,         \* UserManager's session store, the clock and the tokens handed out
    web           \* the web service: files, tasks, TaskManager and its coroutines

agent_vars == <<max_turns, problem_ok, pc, turn, history, total_cost, pending, ret, calls>>
grader_vars == <<g_pc, judge, score>>
scorer_vars == <<scorer, member_log>>
conc_vars == <<ua, runs>>
service_vars == <<remind, auth, web>>
side_vars == <<clarifier, report, human, service_vars>>
vars == <<max_turns, problem_ok, pc, turn, history, total_cost, pending, ret, calls,
          g_pc, judge, score, scorer, member_log, ua, runs, clarifier, report, human,
          remind, auth, web>>

\* no evaluate_problem call in progress
ScorerIdle == scorer = [pc |-> "idle"] /\ member_log = <<>>

\* no shared agent object in use
ConcIdle == ua = <<>> /\ runs = <<>>

\* no UserAgent.answer call, no export and no HumanAgent in use
ClarifierIdle == clarifier = [pc |-> "idle"]
ReportIdle == report = [pc |-> "idle"]
HumanIdle == human = [pc |-> "idle"]

\* no RemindWorkflow run, no session and no web request
RemindIdle == remind = [pc |-> "idle"]
AuthIdle == auth = [pc |-> "idle"]
WebIdle == web = [pc |-> "idle"]
ServiceIdle == RemindIdle /\ AuthIdle /\ WebIdle
SideIdle == ClarifierIdle /\ ReportIdle /\ HumanIdle /\ ServiceIdle

----------------------------------------------------------------------------
(* Bounds *)

MaxTurnsBound == 2
MaxRespLen == 4
MaxCommittee == 3
MaxRuns == 2
MaxQueries == 3

(* stop_after_attempt(3) of the retry decorator *)
MaxTokens == 2
MaxTasks == 2
MaxDays == 1
RetryAttempts == 3

----------------------------------------------------------------------------
(* Python str operations, on sequences of characters *)

IsSpace(c) == c = " "

RECURSIVE LStrip(_)
LStrip(s) == IF s = <<>> THEN s
             ELSE IF IsSpace(Head(s)) THEN LStrip(Tail(s)) ELSE s

RECURSIVE RStrip(_)
RStrip(s) == IF s = <<>> THEN s
             ELSE IF IsSpace(s[Len(s)]) THEN RStrip(SubSeq(s, 1, Len(s) - 1)) ELSE s

\* str.strip()
Strip(s) == RStrip(LStrip(s))

\* str.startswith(p)
StartsWith(s, p) == Len(s) >= Len(p) /\ SubSeq(s, 1, Len(p)) = p

\* s[n:]
Drop(s, n) == SubSeq(s, n + 1, Len(s))

\* sub in s
Contains(s, sub) ==
    \E i \in 0..(Len(s) - Len(sub)) : SubSeq(s, i + 1, i + Len(sub)) = sub

UpperCase == <<"A", "B", "C", "D", "E", "F", "G", "H", "I", "J", "K", "L", "M",
               "N", "O", "P", "Q", "R", "S", "T", "U", "V", "W", "X", "Y", "Z">>

LowerCase == <<"a", "b", "c", "d", "e", "f", "g", "h", "i", "j", "k", "l", "m",
               "n", "o", "p", "q", "r", "s", "t", "u", "v", "w", "x", "y", "z">>

LowerChar(c) ==
    IF \E i \in DOMAIN UpperCase : UpperCase[i] = c
    THEN LowerCase[CHOOSE i \in DOMAIN UpperCase : UpperCase[i] = c]
    ELSE c

\* str.lower()
Lower(s) == [i \in 1..Len(s) |-> LowerChar(s[i])]

----------------------------------------------------------------------------
(* The decision port: what self.llm(prompt) followed by                    *)
(* get_usage_summary() can do.  A textual response is given by the content *)
(* of its first <thought> and <action> segments, when it has them.         *)

TextResponse(ht, t, ha, a) ==
    [kind |-> "text", has_thought |-> ht, thought |-> t, has_action |-> ha, action |-> a]

ActionTexts ==
    { <<" ", "a", "n", "s", "w", "e", "r", ":", " ", "X", " ">>, <<"a", "n", "s", "w", "e", "r", ":", "X">>, <<"a", "s", "k", ":", "q">>, <<"s", "e", "a", "r", "c", "h", ":", " ", "q">>, <<"h", "e", "l", "l", "o">>, <<"A", "n", "s", "w", "e", "r", ":", "X">> }

LLMOutcomes ==
    { [kind |-> "raise"], [kind |-> "none"] }
    \cup { TextResponse(TRUE, <<" ", "t">>, TRUE, a) : a \in ActionTexts }
    \cup { TextResponse(FALSE, <<>>, TRUE, <<"a", "n", "s", "w", "e", "r", ":", "X">>),
           TextResponse(TRUE, <<"t">>, FALSE, <<>>),
           TextResponse(FALSE, <<>>, FALSE, <<>>) }

Costs == {0, 1}

ClarifierOutcomes == { [kind |-> "raise"] }
    \cup { [kind |-> "ok", response |-> r] : r \in { <<"Y", "e", "s">>, <<"N", "o">>, <<"i", "d", "k">> } }

SearchResult == [title |-> <<"T">>, snippet |-> <<"S">>]

SearchOutcomes == { [kind |-> "raise"],
                    [kind |-> "ok", results |-> <<>>],
                    [kind |-> "ok", results |-> <<SearchResult>>] }

----------------------------------------------------------------------------
(* InteractCompAgent *)

\* the outputs for which parse_response falls back to its sentinels: no
\* response at all, or one of the two segments not found
Malformed(out) ==
    out.kind = "none" \/ (out.kind = "text" /\ ~(out.has_thought /\ out.has_action))

\* as parse_response, keeping the segment that was found
parse_response_partial(out) ==
    IF out.kind = "none"
    THEN [thought |-> <<"n", "o", "_", "r", "e", "s", "p", "o", "n", "s", "e">>, action |-> <<"n", "o", "_", "r", "e", "s", "p", "o", "n", "s", "e">>]
    ELSE [thought |-> IF out.has_thought THEN Strip(out.thought)
                      ELSE <<"c", "a", "n", " ", "n", "o", "t", " ", "f", "i", "n", "d", " ", "f", "o", "r", "m", "a", "t", "t", "e", "d", " ", "t", "h", "o", "u", "g", "h", "t", ",", " ", "i", " ", "n", "e", "e", "d", " ", "t", "o", " ", "u", "s", "e", " ", "<", "t", "h", "o", "u", "g", "h", "t", ">", "<", "/", "t", "h", "o", "u", "g", "h", "t", ">">>,
          action |-> IF out.has_action THEN Strip(out.action)
                     ELSE <<"c", "a", "n", " ", "n", "o", "t", " ", "f", "i", "n", "d", " ", "f", "o", "r", "m", "a", "t", "t", "e", "d", " ", "a", "c", "t", "i", "o", "n", ",", " ", "i", " ", "n", "e", "e", "d", " ", "t", "o", " ", "u", "s", "e", " ", "<", "a", "c", "t", "i", "o", "n", ">", "<", "/", "a", "c", "t", "i", "o", "n", ">">>]

\* parse_response: the sentinels when a segment is missing, else both stripped
parse_response(out) ==
    IF out.kind = "none"
    THEN [thought |-> <<"n", "o", "_", "r", "e", "s", "p", "o", "n", "s", "e">>, action |-> <<"n", "o", "_", "r", "e", "s", "p", "o", "n", "s", "e">>]
    ELSE IF ~out.has_thought \/ ~out.has_action
    THEN [thought |-> <<"c", "a", "n", " ", "n", "o", "t", " ", "f", "i", "n", "d", " ", "f", "o", "r", "m", "a", "t", "t", "e", "d", " ", "t", "h", "o", "u", "g", "h", "t", ",", " ", "i", " ", "n", "e", "e", "d", " ", "t", "o", " ", "u", "s", "e", " ", "<", "t", "h", "o", "u", "g", "h", "t", ">", "<", "/", "t", "h", "o", "u", "g", "h", "t", ">">>,
          action |-> <<"c", "a", "n", " ", "n", "o", "t", " ", "f", "i", "n", "d", " ", "f", "o", "r", "m", "a", "t", "t", "e", "d", " ", "a", "c", "t", "i", "o", "n", ",", " ", "i", " ", "n", "e", "e", "d", " ", "t", "o", " ", "u", "s", "e", " ", "<", "a", "c", "t", "i", "o", "n", ">", "<", "/", "a", "c", "t", "i", "o", "n", ">">>]
    ELSE [thought |-> Strip(out.thought), action |-> Strip(out.action)]

\* as _get_agent_decision, with the defaults of lines 188-189 used on failure
_get_agent_decision_default_answer(out, c) ==
    IF out.kind = "raise"
    THEN [raised |-> FALSE, thought |-> <<"N", "o", " ", "t", "h", "o", "u", "g", "h", "t">>, action |-> <<"a", "n", "s", "w", "e", "r", ":", "N", "o", " ", "a", "c", "t", "i", "o", "n">>,
          cost |-> 0]
    ELSE LET response == parse_response(out)
         IN  [raised |-> FALSE, thought |-> response.thought,
              action |-> response.action, cost |-> c]

\* as _get_agent_decision, with the exception left to the caller
_get_agent_decision_reraise(out, c) ==
    IF out.kind = "raise"
    THEN [raised |-> TRUE, thought |-> <<>>, action |-> <<>>, cost |-> 0]
    ELSE LET response == parse_response(out)
         IN  [raised |-> FALSE, thought |-> response.thought,
              action |-> response.action, cost |-> c]

\* _get_agent_decision: one call of the port; any exception gives the sentinel.
\* raised = TRUE would mean that the exception leaves the method.
_get_agent_decision(out, c) ==
    IF out.kind = "raise"
    THEN [raised |-> FALSE, thought |-> <<"n", "o", " ", "t", "h", "o", "u", "g", "h", "t">>, action |-> <<"n", "o", " ", "a", "c", "t", "i", "o", "n">>, cost |-> 0]
    ELSE LET response == parse_response(out)
         IN  [raised |-> FALSE, thought |-> response.thought,
              action |-> response.action, cost |-> c]

\* as _get_action_type, without the test for "answer:"
_get_action_type_no_answer(action) ==
    IF StartsWith(action, <<"a", "s", "k", ":">>) THEN "ask"
    ELSE IF StartsWith(action, <<"s", "e", "a", "r", "c", "h", ":">>) THEN "search"
    ELSE "invalid"

\* as _get_action_type, the prefix compared without regard to case
_get_action_type_any_case(action) ==
    IF StartsWith(Lower(action), <<"a", "s", "k", ":">>) THEN "ask"
    ELSE IF StartsWith(Lower(action), <<"s", "e", "a", "r", "c", "h", ":">>) THEN "search"
    ELSE IF StartsWith(Lower(action), <<"a", "n", "s", "w", "e", "r", ":">>) THEN "answer"
    ELSE "invalid"

_get_action_type(action) ==
    IF StartsWith(action, <<"a", "s", "k", ":">>) THEN "ask"
    ELSE IF StartsWith(action, <<"s", "e", "a", "r", "c", "h", ":">>) THEN "search"
    ELSE IF StartsWith(action, <<"a", "n", "s", "w", "e", "r", ":">>) THEN "answer"
    ELSE "invalid"

\* as turn_record, with the loop variable itself as the index
turn_record_zero_based(t, thought, action, action_type, cost) ==
    [turn |-> t, thought |-> thought, action |-> action,
     action_type |-> action_type, cost |-> cost]

\* the dict built at lines 61-67; t is the 0-based loop variable
turn_record(t, thought, action, action_type, cost) ==
    [turn |-> t + 1, thought |-> thought, action |-> action,
     action_type |-> action_type, cost |-> cost]

\* answer(): the whole stripped action text becomes the final answer
answer(action, rec) == [final_answer |-> Strip(action)] @@ rec

\* ask(), up to the await: the whole stripped action text is the question
ask_begin(action, rec) == [question_asked |-> Strip(action)] @@ rec

\* as ask_end, without the error field on a failure
ask_end_no_error(rec, o) ==
    IF o.kind = "ok"
    THEN [response |-> o.response] @@ rec
    ELSE [response |-> <<"E", "r", "r", "o", "r", " ", "i", "n", " ", "r", "e", "s", "p", "o", "n", "s", "e">>] @@ rec

\* ask(), after the await
ask_end(rec, o) ==
    IF o.kind = "ok"
    THEN [response |-> o.response] @@ rec
    ELSE [response |-> <<"E", "r", "r", "o", "r", " ", "i", "n", " ", "r", "e", "s", "p", "o", "n", "s", "e">>, error |-> <<"c", "l", "a", "r", "i", "f", "i", "e", "r", " ", "f", "a", "i", "l", "e", "d">>] @@ rec

\* search(), up to the await
search_begin(action, rec) == [search_query |-> Strip(Drop(action, 7))] @@ rec

\* as search_end, the failure leaving no error field
search_end_no_error(rec, o) ==
    IF o.kind = "ok"
    THEN [search_results |-> o.results, search_results_count |-> Len(o.results)] @@ rec
    ELSE [search_results |-> <<>>, search_results_count |-> 0] @@ rec

\* search(), after the await
search_end(rec, o) ==
    IF o.kind = "ok"
    THEN [search_results |-> o.results, search_results_count |-> Len(o.results)] @@ rec
    ELSE [search_results |-> <<>>, search_results_count |-> 0,
          error |-> <<"s", "e", "a", "r", "c", "h", " ", "f", "a", "i", "l", "e", "d">>] @@ rec

\* as invalid_record, without the error field
invalid_record_no_error(action, rec) == [rec EXCEPT !.action_type = "invalid"]

\* the else branch of the dispatch, lines 80-85
invalid_record(action, rec) ==
    [error |-> <<"I", "n", "v", "a", "l", "i", "d", " ", "a", "c", "t", "i", "o", "n", ":", " ">> \o action]
        @@ [rec EXCEPT !.action_type = "invalid"]

\* as _force_answer, taking the whole action text as answer() does
_force_answer_whole_action(out, c) ==
    LET d == _get_agent_decision(out, c)
    IN  IF d.raised
        THEN [final_answer |-> <<"E", "r", "r", "o", "r", " ", "g", "e", "n", "e", "r", "a", "t", "i", "n", "g", " ", "f", "i", "n", "a", "l", " ", "a", "n", "s", "w", "e", "r">>, cost |-> 0]
        ELSE [final_answer |-> Strip(d.action), cost |-> d.cost]

\* _force_answer
_force_answer(out, c) ==
    LET d == _get_agent_decision(out, c)
    IN  IF d.raised
        THEN [final_answer |-> <<"E", "r", "r", "o", "r", " ", "g", "e", "n", "e", "r", "a", "t", "i", "n", "g", " ", "f", "i", "n", "a", "l", " ", "a", "n", "s", "w", "e", "r">>, cost |-> 0]
        ELSE IF StartsWith(d.action, <<"a", "n", "s", "w", "e", "r", ":">>)
        THEN [final_answer |-> Strip(Drop(d.action, 7)), cost |-> d.cost]
        ELSE [final_answer |-> <<"N", "o", " ", "f", "i", "n", "a", "l", " ", "a", "n", "s", "w", "e", "r", " ", "p", "r", "o", "v", "i", "d", "e", "d">>, cost |-> d.cost]

\* as forced_record, the cost of the forced decision left out of the record
forced_record_no_cost(final_answer, final_cost) ==
    [turn |-> max_turns + 1, final_answer |-> final_answer, forced |-> TRUE,
     cost |-> 0, action_type |-> "answer"]

\* the record appended at lines 95-103
forced_record(final_answer, final_cost) ==
    [turn |-> max_turns + 1, final_answer |-> final_answer, forced |-> TRUE,
     cost |-> final_cost, action_type |-> "answer"]

\* as LoopNext, with one turn too many
LoopNext_one_more(t) == IF t <= max_turns THEN "decide" ELSE "force"

\* `for turn in range(self.max_turns)`: where control goes with loop index t
LoopNext(t) == IF t < max_turns THEN "decide" ELSE "force"

NoRecord == [turn |-> 0]

\* entry of the observer log
\* as _build_prompt, the record of the turn just completed left out
_build_prompt_without_last(h, t) ==
    [turn |-> t + 1, max_turns |-> max_turns,
     history |-> IF h = <<>> THEN h ELSE SubSeq(h, 1, Len(h) - 1)]

\* _build_prompt: what of the run the prompt of a turn holds; t is the
\* 0-based loop variable
_build_prompt(h, t) == [turn |-> t + 1, max_turns |-> max_turns, history |-> h]

\* FORCE_PROMPT.format(question=question, evidence_text=f"{history}")
force_prompt(h) == [history |-> h]

PortCall(port, t, raised, text) ==
    [port |-> port, turn |-> t, raised |-> raised, text |-> text]

\* lines 43-47: the lookups of problem_data raise KeyError on a missing key
Start ==
    /\ pc = "init"
    /\ IF problem_ok
       THEN /\ pc' = LoopNext(0)
            /\ history' = <<>>
            /\ total_cost' = 0
            /\ turn' = 0
       ELSE /\ pc' = "raised"
            /\ UNCHANGED <<history, total_cost, turn>>
    /\ UNCHANGED <<max_turns, problem_ok, pending, ret, calls, grader_vars, scorer_vars, conc_vars, side_vars>>

\* lines 52-85, up to the next await or return
Decide ==
    /\ pc = "decide"
    /\ \E out \in LLMOutcomes, c \in Costs :
         LET d == _get_agent_decision(out, c)
             action_type == _get_action_type(d.action)
             rec == turn_record(turn, d.thought, d.action, action_type, d.cost)
         IN  /\ calls' = Append(calls,
                     [malformed |-> Malformed(out), prompt |-> _build_prompt(history, turn)]
                     @@ PortCall("decision", turn + 1, out.kind = "raise", d.action))
             /\ IF d.raised
                THEN /\ pc' = "raised"
                     /\ UNCHANGED <<total_cost, history, ret, pending, turn>>
                ELSE /\ total_cost' = total_cost + d.cost
                     /\ CASE action_type = "answer" ->
                               /\ history' = Append(history, answer(d.action, rec))
                               /\ ret' = <<answer(d.action, rec).final_answer,
                                           history', total_cost'>>
                               /\ pc' = "done"
                               /\ UNCHANGED <<pending, turn>>
                          [] action_type = "ask" ->
                               /\ pending' = ask_begin(d.action, rec)
                               /\ pc' = "ask"
                               /\ UNCHANGED <<history, ret, turn>>
                          [] action_type = "search" ->
                               /\ pending' = search_begin(d.action, rec)
                               /\ pc' = "search"
                               /\ UNCHANGED <<history, ret, turn>>
                          [] OTHER ->
                               /\ history' = Append(history, invalid_record(d.action, rec))
                               /\ turn' = turn + 1
                               /\ pc' = LoopNext(turn + 1)
                               /\ UNCHANGED <<pending, ret>>
    /\ UNCHANGED <<max_turns, problem_ok, grader_vars, scorer_vars, conc_vars, side_vars>>

\* ask() from the return of user_agent.answer, then line 75
AskReturn ==
    /\ pc = "ask"
    /\ \E o \in ClarifierOutcomes :
         /\ calls' = Append(calls,
                 PortCall("clarifier", turn + 1, o.kind = "raise", pending.question_asked))
         /\ history' = Append(history, ask_end(pending, o))
    /\ pending' = NoRecord
    /\ turn' = turn + 1
    /\ pc' = LoopNext(turn + 1)
    /\ UNCHANGED <<max_turns, problem_ok, total_cost, ret, grader_vars, scorer_vars, conc_vars, side_vars>>

\* search() from the return of search_engine.search, then line 78
SearchReturn ==
    /\ pc = "search"
    /\ \E o \in SearchOutcomes :
         /\ calls' = Append(calls,
                 PortCall("search", turn + 1, o.kind = "raise", pending.search_query))
         /\ history' = Append(history, search_end(pending, o))
    /\ pending' = NoRecord
    /\ turn' = turn + 1
    /\ pc' = LoopNext(turn + 1)
    /\ UNCHANGED <<max_turns, problem_ok, total_cost, ret, grader_vars, scorer_vars, conc_vars, side_vars>>

\* lines 87-105
ForceAnswer ==
    /\ pc = "force"
    /\ \E out \in LLMOutcomes, c \in Costs :
         LET f == _force_answer(out, c)
         IN  /\ calls' = Append(calls,
                     [malformed |-> Malformed(out), prompt |-> force_prompt(history)]
                     @@ PortCall("forced_decision", max_turns + 1, out.kind = "raise",
                                 _get_agent_decision(out, c).action))
             /\ total_cost' = total_cost + f.cost
             /\ history' = Append(history, forced_record(f.final_answer, f.cost))
             /\ ret' = <<f.final_answer, history', total_cost'>>
    /\ pc' = "done"
    /\ UNCHANGED <<max_turns, problem_ok, pending, turn, grader_vars, scorer_vars, conc_vars, side_vars>>

AgentInit ==
    /\ max_turns \in 0..MaxTurnsBound
    /\ problem_ok \in BOOLEAN
    /\ pc = "init"
    /\ turn = 0
    /\ history = <<>>
    /\ total_cost = 0
    /\ pending = NoRecord
    /\ ret = <<>>
    /\ calls = <<>>

----------------------------------------------------------------------------
(* InteractCompBenchmark.calculate_score *)

JudgeAlphabet == { "y", "e", "s", "n", "o", "Y", " " }

JudgeTexts == UNION { [1..n -> JudgeAlphabet] : n \in 0..MaxRespLen }

\* what `await self.grader_llm(grading_prompt)` can do
\* longer responses of a judge that says no
JudgeSentences == { <<"n", "o", " ", "y", "e", "s">>, <<"N", "o", " ", "e", "y", "e", "s">> }

JudgeOutcomes ==
    { [kind |-> "raise"], [kind |-> "none"] }
    \cup { [kind |-> "text", text |-> t] : t \in JudgeTexts \cup JudgeSentences }

\* as calculate_score, crediting the answer when the judge call fails
calculate_score_fail_open(o) ==
    IF o.kind = "raise" \/ o.kind = "none"
    THEN [raised |-> FALSE, value |-> 1]
    ELSE IF Contains(Lower(Strip(o.text)), <<"y", "e", "s">>)
    THEN [raised |-> FALSE, value |-> 1]
    ELSE [raised |-> FALSE, value |-> 0]

\* calculate_score: 1 stands for 1.0 and 0 for 0.0; None.strip() raises
\* AttributeError inside the try.  raised = TRUE would mean that an exception
\* leaves the method.
calculate_score(o) ==
    IF o.kind = "raise" \/ o.kind = "none"
    THEN [raised |-> FALSE, value |-> 0]
    ELSE IF Contains(Lower(Strip(o.text)), <<"y", "e", "s">>)
    THEN [raised |-> FALSE, value |-> 1]
    ELSE IF Contains(Lower(Strip(o.text)), <<"n", "o">>)
    THEN [raised |-> FALSE, value |-> 0]
    ELSE [raised |-> FALSE, value |-> 0]

\* one call of calculate_score, lines 144-164
CalculateScore ==
    /\ g_pc = "call"
    /\ \E o \in JudgeOutcomes :
         /\ judge' = o
         /\ score' = calculate_score(o).value
         /\ g_pc' = IF calculate_score(o).raised THEN "raised" ELSE "returned"
    /\ UNCHANGED <<agent_vars, scorer_vars, conc_vars, side_vars>>

AgentIdle ==
    /\ max_turns = 0
    /\ problem_ok = TRUE
    /\ pc = "idle"
    /\ turn = 0
    /\ history = <<>>
    /\ total_cost = 0
    /\ pending = NoRecord
    /\ ret = <<>>
    /\ calls = <<>>

GraderInit ==
    /\ AgentIdle /\ ScorerIdle /\ ConcIdle /\ SideIdle
    /\ g_pc = "call" /\ judge = [kind |-> "none"] /\ score = 0

GraderNext == CalculateScore

SpecGrader == GraderInit /\ [][GraderNext]_vars

----------------------------------------------------------------------------
(* InteractCompBenchmark: evaluate_problem, _evaluate_single_model,        *)
(* _evaluate_multi_model, _generate_output, run_multi_model_evaluation     *)

\* the fixed committee of run_baseline.py and web_api.py
EVALUATION_MODELS == <<"gpt-5-mini", "gpt-5", "claude-4-sonnet">>

EngineNames == { EVALUATION_MODELS[i] : i \in DOMAIN EVALUATION_MODELS }

\* the `models` argument of the constructor (None is the empty list here)
ModelLists == UNION { [1..n -> EngineNames] : n \in 0..MaxCommittee }

\* __init__, lines 41-49
benchmark_init(models) ==
    IF Len(models) > 1
    THEN [evaluation_models |-> models, multi_model_mode |-> TRUE]
    ELSE [evaluation_models |-> <<>>, multi_model_mode |-> FALSE]

\* what one attempt `await agent(task)` can do: raise, or return
\* (final_answer, history, total_cost)
AgentRunOutcomes ==
    { [kind |-> "raise"] }
    \cup { [kind |-> "ok", answer |-> <<"P">>, history |-> <<forced_record(<<"P">>, c)>>, cost |-> c]
           : c \in Costs }

\* what the judge port can do for one grading
ScorerJudgeOutcomes ==
    { [kind |-> "raise"], [kind |-> "text", text |-> <<"y", "e", "s">>], [kind |-> "text", text |-> <<"n", "o">>] }

Digit(n) == <<"0", "1", "2", "3", "4", "5", "6", "7", "8", "9">>[n + 1]

\* repr of the list of search results, abridged
ReprResults(results) == IF results = <<>> THEN <<"[", "]">> ELSE <<"[", ".", ".", ".", "]">>

\* one element of summary_parts, or <<>> when the item gives none
summary_part(item) ==
    IF "question_asked" \in DOMAIN item /\ item.question_asked # <<>>
    THEN <<"'", "T">> \o <<Digit(item.turn)>> \o <<":", "A", "s", "k", "(">> \o item.question_asked
         \o <<")", " ", "R", "e", "s", "u", "l", "t", ":">> \o item.response \o <<"'">>
    ELSE IF "search_query" \in DOMAIN item /\ item.search_query # <<>>
    THEN <<"'", "T">> \o <<Digit(item.turn)>> \o <<":", "S", "e", "a", "r", "c", "h", "(">> \o item.search_query
         \o <<")", " ", "R", "e", "s", "u", "l", "t", ":">> \o ReprResults(item.search_results) \o <<"'">>
    ELSE IF "final_answer" \in DOMAIN item /\ item.final_answer # <<>>
    THEN <<"'", "T">> \o <<Digit(item.turn)>> \o <<":", "A", "n", "s", "w", "e", "r", "(">> \o item.final_answer \o <<")", "'">>
    ELSE <<>>

RECURSIVE join_parts(_)
join_parts(h) ==
    IF h = <<>> THEN <<>>
    ELSE LET rest == join_parts(Tail(h))
             part == summary_part(Head(h))
         IN  IF part = <<>> THEN rest
             ELSE IF rest = <<>> THEN part
             ELSE part \o <<",", " ">> \o rest

\* _generate_history_summary
_generate_history_summary(h) ==
    IF h = <<>> THEN <<"N", "o", " ", "i", "n", "t", "e", "r", "a", "c", "t", "i", "o", "n", "s">> ELSE <<"[">> \o join_parts(h) \o <<"]">>

\* as quality_failed, with one right member enough
quality_failed_one(correct_models_count) == correct_models_count >= 1

\* as quality_score, giving the share of right members
quality_score_complement(correct_models_count, n) == [num |-> correct_models_count, den |-> n]

\* as result_quality_failed, asking for more than two right members
result_quality_failed_strict(result) == result[4] > 2

\* line 136
quality_failed(correct_models_count) == correct_models_count >= 2

\* line 137: 1.0 - correct_models_count / len(self.evaluation_models), as a
\* fraction
quality_score(correct_models_count, n) == [num |-> n - correct_models_count, den |-> n]

\* lines 209 and 235: result[3] >= 2 (the columns are counted from 1 here)
result_quality_failed(result) == result[4] >= 2

\* the verdict stored at lines 112-117
verdict(predicted_answer, is_correct, cost, h) ==
    [answer |-> predicted_answer, correct |-> is_correct = 1, cost |-> cost,
     history |-> _generate_history_summary(h)]

\* the verdict stored at lines 127-133
failed_verdict(err) ==
    [answer |-> <<"E", "v", "a", "l", "u", "a", "t", "i", "o", "n", " ", "f", "a", "i", "l", "e", "d">>, correct |-> FALSE, cost |-> 0,
     error |-> err, history |-> <<"E", "r", "r", "o", "r">>]

\* model_results[model_name] = v
store(model_results, model_name, v) ==
    [n \in DOMAIN model_results \cup {model_name} |->
        IF n = model_name THEN v ELSE model_results[n]]

\* lines 75 and 77: the row returned by the handler of evaluate_problem
failure_row(multi) ==
    IF multi
    THEN <<<<"Q">>, <<"G">>, <<>>, 0, [num |-> 0, den |-> 1], 0>>
    ELSE <<<<"Q">>, <<"G">>, <<"E", "r", "r", "o", "r">>, <<"E", "r", "r", "o", "r">>, 0, 0>>

\* lines 135-142, after the last member
finish(s) ==
    [s EXCEPT !.pc = "returned",
              !.quality_failed = quality_failed(s.correct_models_count),
              !.row = <<<<"Q">>, <<"G">>, s.model_results, s.correct_models_count,
                        quality_score(s.correct_models_count, Len(s.evaluation_models)),
                        s.total_cost>>]

\* the `for model_name in self.evaluation_models` loop, line 100
next_member(s) ==
    IF s.idx < Len(s.evaluation_models)
    THEN [s EXCEPT !.idx = @ + 1, !.pc = "construct", !.attempts = 0, !.tries = <<>>,
                   !.run = <<>>]
    ELSE finish([s EXCEPT !.attempts = 0, !.tries = <<>>, !.run = <<>>])

\* as member_failed, the failure ending the member loop
member_failed_abort(s, err) ==
    finish([s EXCEPT !.attempts = 0, !.run = <<>>,
                     !.model_results =
                         store(@, s.evaluation_models[s.idx], failed_verdict(err))])

\* the except branch of the member loop, lines 125-133
member_failed(s, err) ==
    next_member([s EXCEPT !.model_results =
        store(@, s.evaluation_models[s.idx], failed_verdict(err))])

MemberEntry(name, failed, correct, cost) ==
    [name |-> name, failed |-> failed, correct |-> correct, cost |-> cost]

\* what one attempt of _generate_output did (observed)
Try(o) == [kind |-> o.kind, cost |-> IF o.kind = "ok" THEN o.cost ELSE 0]

\* the attempts made for a member and the results handed to calculate_score
\* (observed)
Observed(tries, graded) == [tries |-> tries, graded |-> graded]

\* as retry_again, giving up after the first failure
retry_again_never(attempt_number) == FALSE

\* stop_after_attempt(3): whether a failed attempt is followed by another
retry_again(attempt_number) == attempt_number < RetryAttempts

\* rows of other problems of the batch, as evaluate_problem returns them
\* a committee of three scored with k members right, one cost unit each
sample_row(k) ==
    <<<<"Q">>, <<"G">>,
      [n \in EngineNames |->
          verdict(<<"P">>, IF \E i \in 1..k : n = EVALUATION_MODELS[i]
                       THEN 1 ELSE 0, 1, <<>>)],
      k, quality_score(k, 3), 3>>

OtherResults == { <<>>, <<sample_row(0)>>, <<sample_row(2)>>, <<sample_row(1), sample_row(3)>> }

\* results of the batch: the rows of the problems, in order
evaluate_all_problems(others, row) == others \o <<row>>

RECURSIVE sum_cost(_)
sum_cost(results) ==
    IF results = <<>> THEN 0 ELSE results[1][6] + sum_cost(Tail(results))

\* run_multi_model_evaluation, lines 206-241
batch_summary(results) ==
    LET total_questions == Len(results)
        quality_failed_count ==
            Cardinality({ i \in DOMAIN results : result_quality_failed(results[i]) })
    IN  [total_questions |-> total_questions,
         quality_failed_count |-> quality_failed_count,
         avg_quality_failed_rate |->
            IF total_questions > 0
            THEN [num |-> quality_failed_count, den |-> total_questions]
            ELSE [num |-> 0, den |-> 1],
         total_cost |-> sum_cost(results),
         avg_cost |->
            IF total_questions > 0
            THEN [num |-> sum_cost(results), den |-> total_questions]
            ELSE [num |-> 0, den |-> 1],
         detailed_results |->
            [i \in DOMAIN results |->
                [question |-> results[i][1], correct_answer |-> results[i][2],
                 model_results |-> results[i][3],
                 correct_models_count |-> results[i][4],
                 quality_failed |-> result_quality_failed(results[i]),
                 quality_score |-> results[i][5], total_cost |-> results[i][6]]]]

ScorerStart(b, hq) ==
    [pc |-> "call", has_question |-> hq,
     evaluation_models |-> b.evaluation_models, multi_model_mode |-> b.multi_model_mode,
     idx |-> 0, attempts |-> 0, tries |-> <<>>, run |-> <<>>, model_results |-> <<>>,
     correct_models_count |-> 0, total_cost |-> 0, quality_failed |-> FALSE,
     row |-> <<>>, summary |-> <<>>]

\* evaluate_problem, lines 57-68, and lines 92-97 of _evaluate_multi_model:
\* problem["question"] is read before the try
EvaluateProblem ==
    /\ scorer.pc = "call"
    /\ scorer' =
         IF ~scorer.has_question THEN [scorer EXCEPT !.pc = "raised"]
         ELSE IF scorer.multi_model_mode
         THEN [scorer EXCEPT !.pc = "construct", !.idx = 1]
         ELSE [scorer EXCEPT !.pc = "run"]
    /\ UNCHANGED <<agent_vars, grader_vars, conc_vars, member_log, side_vars>>

\* agent = agent_factory(model_name), line 103
Construct ==
    /\ scorer.pc = "construct"
    /\ \E ok \in BOOLEAN :
         IF ok
         THEN /\ scorer' = [scorer EXCEPT !.pc = "run"]
              /\ UNCHANGED member_log
         ELSE /\ scorer' = member_failed(scorer, <<"c", "o", "n", "s", "t", "r", "u", "c", "t", "i", "o", "n", " ", "f", "a", "i", "l", "e", "d">>)
              /\ member_log' = Append(member_log,
                     Observed(<<>>, <<>>)
                     @@ MemberEntry(scorer.evaluation_models[scorer.idx], TRUE, FALSE, 0))
    /\ UNCHANGED <<agent_vars, grader_vars, conc_vars, side_vars>>

\* one attempt of _generate_output, lines 51-53, and what follows a return
\* (lines 84, 106-107) or the last failure (lines 70-77, 125-133)
Attempt ==
    /\ scorer.pc = "run"
    /\ \E o \in AgentRunOutcomes :
         IF o.kind = "ok"
         THEN /\ scorer' = [scorer EXCEPT !.pc = "grade", !.attempts = @ + 1, !.run = o,
                                          !.tries = Append(@, Try(o)),
                                          !.total_cost = IF scorer.multi_model_mode
                                                         THEN @ + o.cost ELSE @]
              /\ UNCHANGED member_log
         ELSE IF retry_again(scorer.attempts + 1)
         THEN /\ scorer' = [scorer EXCEPT !.attempts = @ + 1, !.tries = Append(@, Try(o))]
              /\ UNCHANGED member_log
         ELSE IF scorer.multi_model_mode
         THEN /\ scorer' = member_failed(scorer, <<"r", "u", "n", " ", "f", "a", "i", "l", "e", "d">>)
              /\ member_log' = Append(member_log,
                     Observed(Append(scorer.tries, Try(o)), <<>>)
                     @@ MemberEntry(scorer.evaluation_models[scorer.idx], TRUE, FALSE, 0))
         ELSE /\ scorer' = [scorer EXCEPT !.pc = "returned", !.attempts = 0,
                                          !.tries = Append(@, Try(o)),
                                          !.row = failure_row(FALSE)]
              /\ UNCHANGED member_log
    /\ UNCHANGED <<agent_vars, grader_vars, conc_vars, side_vars>>

\* calculate_score and the rest of the member (lines 110-123), or of
\* _evaluate_single_model (lines 85-88)
Grade ==
    /\ scorer.pc = "grade"
    /\ \E j \in ScorerJudgeOutcomes :
         LET g == calculate_score(j)
             r == scorer.run
         IN  IF g.raised
             THEN IF scorer.multi_model_mode
                  THEN /\ scorer' = member_failed(scorer, <<"g", "r", "a", "d", "i", "n", "g", " ", "f", "a", "i", "l", "e", "d">>)
                       /\ member_log' = Append(member_log,
                              Observed(scorer.tries, <<r>>)
                              @@ MemberEntry(scorer.evaluation_models[scorer.idx],
                                             TRUE, FALSE, r.cost))
                  ELSE /\ scorer' = [scorer EXCEPT !.pc = "returned", !.attempts = 0,
                                                   !.run = <<>>, !.row = failure_row(FALSE)]
                       /\ UNCHANGED member_log
             ELSE IF scorer.multi_model_mode
             THEN /\ scorer' = next_member(
                        [scorer EXCEPT
                            !.model_results = store(@, scorer.evaluation_models[scorer.idx],
                                                    verdict(r.answer, g.value, r.cost, r.history)),
                            !.correct_models_count = IF g.value = 1 THEN @ + 1 ELSE @])
                  /\ member_log' = Append(member_log,
                         Observed(scorer.tries, <<r>>)
                         @@ MemberEntry(scorer.evaluation_models[scorer.idx],
                                        FALSE, g.value = 1, r.cost))
             ELSE /\ scorer' = [scorer EXCEPT
                                   !.pc = "returned", !.attempts = 0, !.run = <<>>,
                                   !.row = <<<<"Q">>, <<"G">>, r.answer,
                                             _generate_history_summary(r.history),
                                             g.value, r.cost>>]
                  /\ UNCHANGED member_log
    /\ UNCHANGED <<agent_vars, grader_vars, conc_vars, side_vars>>

\* run_multi_model_evaluation from the return of evaluate_all_problems
Summarise ==
    /\ scorer.pc = "returned"
    /\ scorer.multi_model_mode
    /\ \E others \in OtherResults :
         scorer' = [scorer EXCEPT !.pc = "summarised",
                       !.summary = batch_summary(evaluate_all_problems(others, scorer.row))]
    /\ UNCHANGED <<agent_vars, grader_vars, conc_vars, member_log, side_vars>>

\* str() of a bool, as csv.writer writes it
str_bool(b) == IF b THEN <<"T", "r", "u", "e">> ELSE <<"F", "a", "l", "s", "e">>

\* str() of a small int
str_int(n) == <<Digit(n)>>

\* str() of a cost, a float with no fraction here
str_float(n) == <<Digit(n)>> \o <<".", "0">>

\* item.get("model_results", {}).get(name, {}).get("answer", "")
get_answer(item, name) ==
    IF name \in DOMAIN item.model_results THEN item.model_results[name].answer ELSE <<>>

\* item.get("model_results", {}).get(name, {}).get("correct", False)
get_correct(item, name) ==
    IF name \in DOMAIN item.model_results THEN item.model_results[name].correct ELSE FALSE

\* as csv_row, the gpt5_correct cell taken from the gpt-5-mini verdict
csv_row_wrong_engine(item) ==
    << item.question, item.correct_answer,
       get_answer(item, "gpt-5-mini"), str_bool(get_correct(item, "gpt-5-mini")),
       get_answer(item, "gpt-5"), str_bool(get_correct(item, "gpt-5-mini")),
       get_answer(item, "claude-4-sonnet"), str_bool(get_correct(item, "claude-4-sonnet")),
       str_int(item.correct_models_count), str_bool(item.quality_failed),
       str_float(item.total_cost), <<"u", "s", "e", "r">>, <<"d", "a", "t", "e">> >>

\* the row download_csv_report writes for one detailed result, lines 436-450
csv_row(item) ==
    << item.question, item.correct_answer,
       get_answer(item, "gpt-5-mini"), str_bool(get_correct(item, "gpt-5-mini")),
       get_answer(item, "gpt-5"), str_bool(get_correct(item, "gpt-5")),
       get_answer(item, "claude-4-sonnet"), str_bool(get_correct(item, "claude-4-sonnet")),
       str_int(item.correct_models_count), str_bool(item.quality_failed),
       str_float(item.total_cost), <<"u", "s", "e", "r">>, <<"d", "a", "t", "e">> >>

\* download_csv_report for a completed task of web_api.run_multi_model_evaluation,
\* whose benchmark is built with models=EVALUATION_MODELS (line 489) and whose
\* detailed_results are those of run_multi_model_evaluation (lines 516-527)
DownloadCsvReport ==
    /\ scorer.pc = "summarised"
    /\ scorer.evaluation_models = EVALUATION_MODELS
    /\ report.pc = "idle"
    /\ report' = [pc |-> "written",
                  rows |-> [i \in DOMAIN scorer.summary.detailed_results |->
                               csv_row(scorer.summary.detailed_results[i])]]
    /\ UNCHANGED <<agent_vars, grader_vars, scorer_vars, conc_vars, clarifier, human, service_vars>>

ScorerInit ==
    /\ AgentIdle /\ ConcIdle /\ SideIdle
    /\ g_pc = "idle" /\ judge = [kind |-> "none"] /\ score = 0
    /\ \E models \in ModelLists, hq \in BOOLEAN :
         scorer = ScorerStart(benchmark_init(models), hq)
    /\ member_log = <<>>

ScorerNext ==
    EvaluateProblem \/ Construct \/ Attempt \/ Grade \/ Summarise \/ DownloadCsvReport

SpecScorer == ScorerInit /\ [][ScorerNext]_vars

----------------------------------------------------------------------------
(* Runs of InteractCompAgent.__call__ in progress at the same time; a run  *)
(* gives up control only at its awaits                                     *)

\* the hidden context of problem p
Context(p) == <<"c", Digit(p)>>

\* UserAgent.__init__
UserAgent_init == [context |-> <<>>, history |-> <<>>]

\* UserAgent.reset
reset(u, context) == [u EXCEPT !.history = <<>>, !.context = context]

\* the decisions a turn can take, as _get_action_type sorts them
RunDecisions == { "answer", "ask", "other" }

\* run r scores problem r; in single-model mode every run calls the one
\* agent object (shared), in multi-model mode each has an agent of its own
RunStart(r, shared) ==
    [agent |-> IF shared THEN 1 ELSE r, problem |-> r, pc |-> "call", turn |-> 0,
     history |-> <<>>, prompt_context |-> <<>>, asks |-> <<>>]

\* the end of a turn that did not answer
run_next(run) ==
    IF run.turn < MaxTurnsBound
    THEN [run EXCEPT !.turn = @ + 1, !.pc = "decide"]
    ELSE [run EXCEPT !.pc = "force"]

\* __call__ up to its first await: lines 43-55
RunCall(r) ==
    /\ runs[r].pc = "call"
    /\ ua' = [ua EXCEPT ![runs[r].agent] = reset(@, Context(runs[r].problem))]
    /\ runs' = [runs EXCEPT ![r] = [@ EXCEPT !.turn = 1, !.pc = "decide"]]
    /\ UNCHANGED <<agent_vars, grader_vars, scorer_vars, side_vars>>

\* the return of _get_agent_decision up to the next await; for an ask this
\* runs UserAgent.answer up to `await self.llm(prompt)`, the prompt holding
\* self.context as it is then
RunDecide(r) ==
    /\ runs[r].pc = "decide"
    /\ \E d \in RunDecisions :
         LET run == runs[r]
             rec == [turn |-> run.turn, action_type |-> d, run |-> r]
         IN  runs' = [runs EXCEPT ![r] =
                 IF d = "answer"
                 THEN [run EXCEPT !.history = Append(@, rec), !.pc = "done"]
                 ELSE IF d = "other"
                 THEN run_next([run EXCEPT !.history = Append(@, rec)])
                 ELSE IF ua[run.agent].context = <<>>
                 THEN run_next([run EXCEPT !.history = Append(@, rec)])
                 ELSE [run EXCEPT !.pc = "asking",
                                  !.prompt_context = ua[run.agent].context,
                                  !.asks = Append(@, ua[run.agent].context)]]
    /\ UNCHANGED <<agent_vars, grader_vars, scorer_vars, ua, side_vars>>

\* the return of the Clarifier's model call: UserAgent.answer lines 25-39 and
\* the rest of the turn
RunAskReturn(r) ==
    /\ runs[r].pc = "asking"
    /\ \E ok \in BOOLEAN :
         LET run == runs[r]
             rec == [turn |-> run.turn, action_type |-> "ask", run |-> r]
         IN  /\ ua' = IF ok
                      THEN [ua EXCEPT ![run.agent].history = Append(@, r)]
                      ELSE ua
             /\ runs' = [runs EXCEPT ![r] =
                    run_next([run EXCEPT !.history = Append(@, rec),
                                         !.prompt_context = <<>>])]
    /\ UNCHANGED <<agent_vars, grader_vars, scorer_vars, side_vars>>

\* the forced answer after the last turn, lines 87-105
RunForce(r) ==
    /\ runs[r].pc = "force"
    /\ runs' = [runs EXCEPT ![r] =
           [@ EXCEPT !.pc = "done",
                     !.history = Append(@, [turn |-> MaxTurnsBound + 1,
                                            action_type |-> "answer", run |-> r])]]
    /\ UNCHANGED <<agent_vars, grader_vars, scorer_vars, ua, side_vars>>

ConcInit ==
    /\ AgentIdle /\ ScorerIdle /\ SideIdle
    /\ g_pc = "idle" /\ judge = [kind |-> "none"] /\ score = 0
    /\ ua = [a \in 1..MaxRuns |-> UserAgent_init]
    /\ \E shared \in BOOLEAN : runs = [r \in 1..MaxRuns |-> RunStart(r, shared)]

ConcNext ==
    \E r \in 1..MaxRuns : RunCall(r) \/ RunDecide(r) \/ RunAskReturn(r) \/ RunForce(r)

SpecConc == ConcInit /\ [][ConcNext]_vars

----------------------------------------------------------------------------
(* UserAgent.answer, the simulated human behind the Clarifier port         *)

\* the `question` argument: None or a text
Questions ==
    { [kind |-> "none"] }
    \cup { [kind |-> "text", text |-> t] : t \in { <<>>, <<" ", " ">>, <<"q">>, <<" ", "q", "?", " ">> } }

\* self.context as reset() or __init__ left it
HiddenContexts == { <<>>, <<" ">>, <<"c">> }

\* what `await self.llm(prompt)` can do
ClarifierModelOutcomes ==
    { [kind |-> "raise"], [kind |-> "none"] }
    \cup { [kind |-> "text", text |-> t] : t \in JudgeTexts \cup { <<"i", "d", "k">>, <<" ", "I", "D", "K", " ">>, <<"m", "a", "y", "b", "e">> } }

\* as _parse_response, an unrecognised response passed on as it is
_parse_response_echo(response) ==
    IF Contains(Lower(Strip(response)), <<"y", "e", "s">>) THEN <<"Y", "e", "s">>
    ELSE IF Contains(Lower(Strip(response)), <<"n", "o">>) THEN <<"N", "o">>
    ELSE IF Contains(Lower(Strip(response)), <<"i", "d", "k">>) THEN <<"i", "d", "k">>
    ELSE Lower(Strip(response))

\* UserAgent._parse_response
_parse_response(response) ==
    IF Contains(Lower(Strip(response)), <<"y", "e", "s">>) THEN <<"Y", "e", "s">>
    ELSE IF Contains(Lower(Strip(response)), <<"n", "o">>) THEN <<"N", "o">>
    ELSE IF Contains(Lower(Strip(response)), <<"i", "d", "k">>) THEN <<"i", "d", "k">>
    ELSE <<"i", "d", "k">>

\* q = (question or "").strip()
stripped_question(question) ==
    IF question.kind = "none" THEN <<>> ELSE Strip(question.text)

\* UserAgent.answer up to `await self.llm(prompt)`, lines 18-25
AnswerBegin ==
    /\ clarifier.pc = "call"
    /\ clarifier' =
         IF stripped_question(clarifier.question) = <<>> \/ clarifier.context = <<>>
         THEN [clarifier EXCEPT !.pc = "returned", !.result = <<"i", "d", "k">>]
         ELSE [clarifier EXCEPT !.pc = "await", !.llm_calls = @ + 1]
    /\ UNCHANGED <<agent_vars, grader_vars, scorer_vars, conc_vars, report, human, service_vars>>

\* UserAgent.answer from the return of the model call, lines 25-39; None
\* has no strip(), which raises inside the try
AnswerEnd ==
    /\ clarifier.pc = "await"
    /\ \E o \in ClarifierModelOutcomes :
         clarifier' =
           IF o.kind = "text"
           THEN [clarifier EXCEPT
                    !.pc = "returned",
                    !.result = _parse_response(o.text),
                    !.history = Append(@, [question |-> clarifier.question.text,
                                           answer |-> _parse_response(o.text),
                                           raw_response |-> o.text])]
           ELSE [clarifier EXCEPT !.pc = "returned", !.result = <<"i", "d", "k">>]
    /\ UNCHANGED <<agent_vars, grader_vars, scorer_vars, conc_vars, report, human, service_vars>>

ClarifierInit ==
    /\ AgentIdle /\ ScorerIdle /\ ConcIdle /\ ReportIdle /\ HumanIdle /\ ServiceIdle
    /\ g_pc = "idle" /\ judge = [kind |-> "none"] /\ score = 0
    /\ \E q \in Questions, c \in HiddenContexts :
         clarifier = [pc |-> "call", question |-> q, context |-> c, history |-> <<>>,
                      llm_calls |-> 0, result |-> <<>>]

ClarifierNext == AnswerBegin \/ AnswerEnd

SpecClarifier == ClarifierInit /\ [][ClarifierNext]_vars

----------------------------------------------------------------------------
(* HumanAgent in automatic EASY mode: respond_to_question,                 *)
(* _auto_easy_response, _extract_slot_from_question, reset                 *)

\* s.split(sep): the pieces between the separators, empty ones included
RECURSIVE split(_, _)
split(s, sep) ==
    IF \A i \in DOMAIN s : s[i] # sep THEN <<s>>
    ELSE LET k == CHOOSE i \in DOMAIN s : s[i] = sep /\ \A j \in 1..(i - 1) : s[j] # sep
         IN  <<SubSeq(s, 1, k - 1)>> \o split(SubSeq(s, k + 1, Len(s)), sep)

\* s.split(): the words between runs of blanks
words(s) == SelectSeq(split(s, " "), LAMBDA w : w # <<>>)

Punctuation == { ".", ",", "!", "?", ";", ":", "(", ")", "[", "]", "{", "}", "\"", "'", "-" }

\* word.strip('.,!?;:()[]{}"\'-')
RECURSIVE strip_punctuation(_)
strip_punctuation(w) ==
    IF w = <<>> THEN w
    ELSE IF Head(w) \in Punctuation THEN strip_punctuation(Tail(w))
    ELSE IF w[Len(w)] \in Punctuation THEN strip_punctuation(SubSeq(w, 1, Len(w) - 1))
    ELSE w

\* sep.join(parts)
RECURSIVE join(_, _)
join(sep, parts) ==
    IF parts = <<>> THEN <<>>
    ELSE IF Len(parts) = 1 THEN parts[1]
    ELSE parts[1] \o sep \o join(sep, Tail(parts))

Least(S) == CHOOSE i \in S : \A j \in S : i <= j

\* the phrases that ask for the catalog, lines 163-166
CatalogPhrases ==
    { <<"w", "h", "a", "t", " ", "i", "n", "f", "o", "r", "m", "a", "t", "i", "o", "n">>, <<"i", "n", "f", "o", "r", "m", "a", "t", "i", "o", "n", " ", "c", "a", "t", "e", "g", "o", "r", "i", "e", "s">>, <<"c", "a", "t", "e", "g", "o", "r", "i", "e", "s", " ", "a", "v", "a", "i", "l", "a", "b", "l", "e">>,
      <<"w", "h", "a", "t", " ", "c", "a", "t", "e", "g", "o", "r", "i", "e", "s">>, <<"a", "v", "a", "i", "l", "a", "b", "l", "e", " ", "i", "n", "f", "o", "r", "m", "a", "t", "i", "o", "n">>, <<"w", "h", "a", "t", " ", "c", "a", "n", " ", "y", "o", "u", " ", "t", "e", "l", "l", " ", "m", "e">> }

is_requesting_categories(question_lower) ==
    \E phrase \in CatalogPhrases : Contains(question_lower, phrase)

\* _extract_slot_from_question: the four ways of finding a slot, in order;
\* None is [found |-> FALSE]
_extract_slot_from_question(question, allowed_slots) ==
    LET by_id == { i \in DOMAIN allowed_slots : Contains(question, Lower(allowed_slots[i].id)) }
        main_words(i) == SelectSeq(split(allowed_slots[i].id, "_"), LAMBDA w : Len(w) > 3)
        by_main_words == { i \in DOMAIN allowed_slots :
            /\ main_words(i) # <<>>
            /\ \A k \in DOMAIN main_words(i) : Contains(question, Lower(main_words(i)[k])) }
        desc_words(i) ==
            SelectSeq([k \in DOMAIN words(Lower(allowed_slots[i].desc)) |->
                          strip_punctuation(words(Lower(allowed_slots[i].desc))[k])],
                      LAMBDA w : Len(w) > 4)
        by_desc == { i \in DOMAIN allowed_slots :
            Cardinality({ k \in DOMAIN desc_words(i) : Contains(question, desc_words(i)[k]) }) >= 2 }
        by_part == { i \in DOMAIN allowed_slots :
            \E k \in DOMAIN split(allowed_slots[i].id, "_") :
                LET part == split(allowed_slots[i].id, "_")[k]
                IN  Len(part) > 4 /\ Contains(question, Lower(part)) }
        hit(S) == [found |-> TRUE, id |-> allowed_slots[Least(S)].id]
    IN  IF by_id # {} THEN hit(by_id)
        ELSE IF by_main_words # {} THEN hit(by_main_words)
        ELSE IF by_desc # {} THEN hit(by_desc)
        ELSE IF by_part # {} THEN hit(by_part)
        ELSE [found |-> FALSE]

\* the catalog answer, lines 177-185
catalog(allowed_slots) ==
    <<"A", "v", "a", "i", "l", "a", "b", "l", "e", " ", "i", "n", "f", "o", "r", "m", "a", "t", "i", "o", "n", " ", "c", "a", "t", "e", "g", "o", "r", "i", "e", "s", ":", " ">>
    \o join(<<";", " ">>, [i \in DOMAIN allowed_slots |->
                      allowed_slots[i].id \o <<":", " ">> \o allowed_slots[i].desc])
    \o <<".", " ", "P", "l", "e", "a", "s", "e", " ", "c", "h", "o", "o", "s", "e", " ", "a", " ", "s", "p", "e", "c", "i", "f", "i", "c", " ", "c", "a", "t", "e", "g", "o", "r", "y", " ", "n", "a", "m", "e", " ", "(", "e", ".", "g", ".", ",", " ", "m", "o", "b", "i", "l", "i", "t", "y", "_", "p", "l", "a", "t", "f", "o", "r", "m", ")", ".">>

\* the packs of the selected slot that have items, in order
packs_with_items(packs, selected_slot) ==
    SelectSeq(packs, LAMBDA pack : pack.slot = selected_slot /\ pack.items # <<>>)

\* as _auto_easy_response, the catalog given only while waiting for a request
_auto_easy_response_no_phrases(state, question, problem_data) ==
    LET question_lower == Strip(Lower(question))
        selected_slot == _extract_slot_from_question(question_lower, problem_data.allowed_slots)
    IN  IF state = "waiting_for_request"
        THEN IF problem_data.allowed_slots # <<>>
             THEN [easy_mode_state |-> "waiting_for_slot_choice",
                   response |-> catalog(problem_data.allowed_slots)]
             ELSE [easy_mode_state |-> state,
                   response |-> <<"N", "o", " ", "i", "n", "f", "o", "r", "m", "a", "t", "i", "o", "n", " ", "c", "a", "t", "e", "g", "o", "r", "i", "e", "s", " ", "a", "v", "a", "i", "l", "a", "b", "l", "e", ".">>]
        ELSE IF selected_slot.found
        THEN IF packs_with_items(problem_data.packs, selected_slot.id) # <<>>
             THEN [easy_mode_state |-> "waiting_for_request",
                   response |-> join(<<" ", "|", " ">>, packs_with_items(problem_data.packs,
                                                              selected_slot.id)[1].items)]
             ELSE [easy_mode_state |-> "waiting_for_request",
                   response |-> <<"N", "o", " ", "d", "e", "t", "a", "i", "l", "e", "d", " ", "i", "n", "f", "o", "r", "m", "a", "t", "i", "o", "n", " ", "a", "v", "a", "i", "l", "a", "b", "l", "e", " ", "f", "o", "r", " ">>
                                \o selected_slot.id \o <<".">>]
        ELSE [easy_mode_state |-> "waiting_for_request",
              response |-> <<"P", "l", "e", "a", "s", "e", " ", "s", "p", "e", "c", "i", "f", "y", " ", "a", " ", "v", "a", "l", "i", "d", " ", "i", "n", "f", "o", "r", "m", "a", "t", "i", "o", "n", " ", "c", "a", "t", "e", "g", "o", "r", "y", " ", "n", "a", "m", "e", " ", "(", "e", ".", "g", ".", ",", " ", "m", "o", "b", "i", "l", "i", "t", "y", "_", "p", "l", "a", "t", "f", "o", "r", "m", ",", " ", "w", "e", "a", "k", "p", "o", "i", "n", "t", "_", "a", "n", "a", "t", "o", "m", "y", ")", ".">>]

\* _auto_easy_response: the new easy_mode_state and the answer
_auto_easy_response(state, question, problem_data) ==
    LET question_lower == Strip(Lower(question))
        selected_slot == _extract_slot_from_question(question_lower, problem_data.allowed_slots)
    IN  IF state = "waiting_for_request" \/ is_requesting_categories(question_lower)
        THEN IF problem_data.allowed_slots # <<>>
             THEN [easy_mode_state |-> "waiting_for_slot_choice",
                   response |-> catalog(problem_data.allowed_slots)]
             ELSE [easy_mode_state |-> state,
                   response |-> <<"N", "o", " ", "i", "n", "f", "o", "r", "m", "a", "t", "i", "o", "n", " ", "c", "a", "t", "e", "g", "o", "r", "i", "e", "s", " ", "a", "v", "a", "i", "l", "a", "b", "l", "e", ".">>]
        ELSE IF selected_slot.found
        THEN IF packs_with_items(problem_data.packs, selected_slot.id) # <<>>
             THEN [easy_mode_state |-> "waiting_for_request",
                   response |-> join(<<" ", "|", " ">>, packs_with_items(problem_data.packs,
                                                              selected_slot.id)[1].items)]
             ELSE [easy_mode_state |-> "waiting_for_request",
                   response |-> <<"N", "o", " ", "d", "e", "t", "a", "i", "l", "e", "d", " ", "i", "n", "f", "o", "r", "m", "a", "t", "i", "o", "n", " ", "a", "v", "a", "i", "l", "a", "b", "l", "e", " ", "f", "o", "r", " ">>
                                \o selected_slot.id \o <<".">>]
        ELSE [easy_mode_state |-> "waiting_for_request",
              response |-> <<"P", "l", "e", "a", "s", "e", " ", "s", "p", "e", "c", "i", "f", "y", " ", "a", " ", "v", "a", "l", "i", "d", " ", "i", "n", "f", "o", "r", "m", "a", "t", "i", "o", "n", " ", "c", "a", "t", "e", "g", "o", "r", "y", " ", "n", "a", "m", "e", " ", "(", "e", ".", "g", ".", ",", " ", "m", "o", "b", "i", "l", "i", "t", "y", "_", "p", "l", "a", "t", "f", "o", "r", "m", ",", " ", "w", "e", "a", "k", "p", "o", "i", "n", "t", "_", "a", "n", "a", "t", "o", "m", "y", ")", ".">>]

\* the categories of a problem and their details
WingsSlot == [id |-> <<"w", "i", "n", "g", "s", "_", "k", "i", "n", "d">>, desc |-> <<"s", "h", "a", "p", "e", " ", "o", "f", " ", "w", "i", "n", "g", "s">>]
TailSlot == [id |-> <<"t", "a", "i", "l">>, desc |-> <<"T", "a", "i", "l", " ", "l", "e", "n", "g", "t", "h", ",", " ", "c", "o", "l", "o", "u", "r", ".">>]
WingsPack == [slot |-> <<"w", "i", "n", "g", "s", "_", "k", "i", "n", "d">>, items |-> <<<<"b", "r", "o", "a", "d">>, <<"d", "a", "r", "k">>>>]

ProblemDatas ==
    { [allowed_slots |-> <<WingsSlot, TailSlot>>, packs |-> <<WingsPack>>],
      [allowed_slots |-> <<WingsSlot, TailSlot>>,
       packs |-> <<[slot |-> <<"t", "a", "i", "l">>, items |-> <<>>], WingsPack,
                   [slot |-> <<"t", "a", "i", "l">>, items |-> <<<<"l", "o", "n", "g">>>>]>>],
      [allowed_slots |-> <<>>, packs |-> <<>>] }

\* the questions an agent may put
HumanQueries ==
    { <<"W", "h", "a", "t", " ", "c", "a", "t", "e", "g", "o", "r", "i", "e", "s", "?">>, <<"w", "i", "n", "g", "s", "_", "k", "i", "n", "d">>, <<"T", "a", "i", "l">>, <<"k", "i", "n", "d", " ", "o", "f", " ", "W", "i", "n", "g", "s">>, <<"l", "e", "n", "g", "t", "h", " ", "a", "n", "d", " ", "c", "o", "l", "o", "u", "r">>,
      <<"t", "h", "e", " ", "w", "i", "n", "g", "s">>, <<"h", "e", "l", "l", "o">>, <<"w", "h", "a", "t", " ", "i", "n", "f", "o", "r", "m", "a", "t", "i", "o", "n", " ", "o", "n", " ", "t", "a", "i", "l">> }

\* respond_to_question, interactive = False and mode = "EASY"
RespondToQuestion ==
    /\ human.pc = "ready"
    /\ human.steps < MaxQueries
    /\ \E question \in HumanQueries :
         LET r == _auto_easy_response(human.easy_mode_state, question, human.problem_data)
         IN  human' = [human EXCEPT
                 !.steps = @ + 1,
                 !.easy_mode_state = r.easy_mode_state,
                 !.interaction_history =
                     Append(@, [question |-> question, mode |-> "EASY",
                                state |-> human.easy_mode_state,
                                response |-> r.response])]
    /\ UNCHANGED <<agent_vars, grader_vars, scorer_vars, conc_vars, clarifier, report, service_vars>>

\* HumanAgent.reset
HumanReset ==
    /\ human.pc = "ready"
    /\ human.steps < MaxQueries
    /\ human.interaction_history # <<>>
    /\ human' = [human EXCEPT !.steps = @ + 1,
                              !.interaction_history = <<>>,
                              !.easy_mode_state = "waiting_for_request"]
    /\ UNCHANGED <<agent_vars, grader_vars, scorer_vars, conc_vars, clarifier, report, service_vars>>

\* HumanAgent(mode="EASY", interactive=False)
HumanInit ==
    /\ AgentIdle /\ ScorerIdle /\ ConcIdle /\ ClarifierIdle /\ ReportIdle /\ ServiceIdle
    /\ g_pc = "idle" /\ judge = [kind |-> "none"] /\ score = 0
    /\ \E pd \in ProblemDatas :
         human = [pc |-> "ready", steps |-> 0, problem_data |-> pd,
                  easy_mode_state |-> "waiting_for_request",
                  interaction_history |-> <<>>]

HumanNext == RespondToQuestion \/ HumanReset

SpecHuman == HumanInit /\ [][HumanNext]_vars

GraderIdle == g_pc = "idle" /\ judge = [kind |-> "none"] /\ score = 0

Init == AgentInit /\ GraderIdle /\ ScorerIdle /\ ConcIdle /\ SideIdle

Next == Start \/ Decide \/ AskReturn \/ SearchReturn \/ ForceAnswer

Spec == Init /\ [][Next]_vars

\* every port call eventually returns or raises, and the event loop resumes
\* the coroutine
SpecFair == Spec /\ WF_vars(Next)

----------------------------------------------------------------------------
(* Properties of the agent loop *)

IsDecision(e) == e.port = "decision"
IsForcedDecision(e) == e.port = "forced_decision"
HasPrefix(text) ==
    StartsWith(text, <<"a", "s", "k", ":">>) \/ StartsWith(text, <<"s", "e", "a", "r", "c", "h", ":">>) \/ StartsWith(text, <<"a", "n", "s", "w", "e", "r", ":">>)
DecisionCalls == { i \in DOMAIN calls : IsDecision(calls[i]) }
ForcedCalls == { i \in DOMAIN calls : IsForcedDecision(calls[i]) }
AnswerCalls == { i \in DecisionCalls : StartsWith(calls[i].text, <<"a", "n", "s", "w", "e", "r", ":">>) }
TerminalCalls == AnswerCalls \cup ForcedCalls
ForcedRecords == { i \in DOMAIN history : "forced" \in DOMAIN history[i] }
AnswerRecords == { i \in DOMAIN history : history[i].action_type = "answer" }
Started == pc \in {"decide", "ask", "search", "force"}

\* C1: a completed run returns a transcript of at least 1 and at most
\* max_turns + 1 records whose last record has action kind "answer".
C1_TranscriptLength ==
    pc = "done" =>
        /\ Len(ret) = 3
        /\ ret[2] = history
        /\ 1 <= Len(ret[2])
        /\ Len(ret[2]) <= max_turns + 1
        /\ ret[2][Len(ret[2])].action_type = "answer"

C1_Witness ==
    /\ pc = "done"
    /\ max_turns = 2
    /\ Len(history) = 3
    /\ \E i \in DOMAIN calls : calls[i].raised

\* C2: a run terminates exactly once.  A first "answer:" decision at turn
\* t <= max_turns ends it with exactly t records, none forced, and is the last
\* port call of the run; otherwise the only forced record is the last one, at
\* index max_turns + 1.  Exactly one record has kind "answer" and it is last.
C2_TerminatesOnce ==
    /\ Cardinality(TerminalCalls) <= 1
    /\ (pc = "done") <=> (TerminalCalls # {})
    /\ \A i \in TerminalCalls :
         /\ i = Len(calls)
         /\ AnswerRecords = {Len(history)}
         /\ IF IsDecision(calls[i])
            THEN /\ calls[i].turn <= max_turns
                 /\ Len(history) = calls[i].turn
                 /\ ForcedRecords = {}
            ELSE /\ Len(history) = max_turns + 1
                 /\ ForcedRecords = {max_turns + 1}
                 /\ history[max_turns + 1].turn = max_turns + 1

C2_Witness ==
    /\ pc = "done"
    /\ Len(history) = 2
    /\ max_turns = 2
    /\ history[1].action_type = "ask"
    /\ AnswerCalls = {Len(calls)}

\* C3: when a decision returns "answer:X", the final answer returned and
\* recorded is X, the text after the prefix, stripped.
C3_AnswerPayload ==
    \A i \in AnswerCalls :
        pc = "done" =>
            /\ ret[1] = Strip(Drop(calls[i].text, 7))
            /\ history[Len(history)].final_answer = Strip(Drop(calls[i].text, 7))

\* C4: the decision port is invoked at most max_turns + 1 times in a run: at
\* most max_turns regular decisions and at most one forced decision.
C4_DecisionBudget ==
    /\ Cardinality(DecisionCalls) <= max_turns
    /\ Cardinality(ForcedCalls) <= 1
    /\ Cardinality(DecisionCalls \cup ForcedCalls) <= max_turns + 1

C4_Witness ==
    /\ max_turns = 2
    /\ Cardinality(DecisionCalls) = 2
    /\ Cardinality(ForcedCalls) = 1
    /\ \E i \in DecisionCalls : calls[i].raised

\* C5: a failing decision-port call is retried, RetryAttempts attempts in
\* all, before it is converted to the sentinel: every turn whose decision
\* call failed and was recorded has had RetryAttempts invocations of the port.
C5_DecisionRetried ==
    \A i \in DecisionCalls \cup ForcedCalls :
        (calls[i].raised /\ Len(history) >= calls[i].turn) =>
            Cardinality({ j \in DecisionCalls \cup ForcedCalls :
                            calls[j].turn = calls[i].turn }) = RetryAttempts

\* C6: a failing decision of a regular turn does not abort the run: the turn
\* is recorded with reasoning "no thought", action "no action", cost 0 and
\* kind "invalid", and the loop goes on to the next turn, or to the forced
\* answer after turn max_turns.
C6_FailedDecisionRecorded ==
    /\ pc # "raised" \/ calls = <<>>
    /\ \A i \in DecisionCalls :
         calls[i].raised =>
            /\ Len(history) >= calls[i].turn
            /\ history[calls[i].turn].thought = <<"n", "o", " ", "t", "h", "o", "u", "g", "h", "t">>
            /\ history[calls[i].turn].action = <<"n", "o", " ", "a", "c", "t", "i", "o", "n">>
            /\ history[calls[i].turn].cost = 0
            /\ history[calls[i].turn].action_type = "invalid"
            /\ i = Len(calls) =>
                 /\ turn = calls[i].turn
                 /\ pc = IF calls[i].turn < max_turns THEN "decide" ELSE "force"

C6_Witness ==
    /\ max_turns = 2
    /\ pc = "force"
    /\ Len(calls) = 2
    /\ IsDecision(calls[1]) /\ calls[1].raised
    /\ IsDecision(calls[2]) /\ calls[2].raised

\* C7: when no decision of the run has a recognised action prefix, the
\* transcript is max_turns records of kind "invalid" with indices
\* 1..max_turns, each with an error field and each from one decision, followed
\* by one forced answer record at index max_turns + 1.
C7_AllInvalid ==
    (pc = "done" /\ \A i \in DecisionCalls : ~HasPrefix(calls[i].text)) =>
        /\ Len(history) = max_turns + 1
        /\ Cardinality(DecisionCalls) = max_turns
        /\ \A t \in 1..max_turns :
             /\ history[t].action_type = "invalid"
             /\ history[t].turn = t
             /\ "error" \in DOMAIN history[t]
             /\ Cardinality({ i \in DecisionCalls : calls[i].turn = t }) = 1
        /\ ForcedRecords = {max_turns + 1}
        /\ history[max_turns + 1].turn = max_turns + 1
        /\ history[max_turns + 1].action_type = "answer"

C7_Witness ==
    /\ pc = "done"
    /\ max_turns = 2
    /\ Cardinality(DecisionCalls) = 2
    /\ \A i \in DecisionCalls : ~HasPrefix(calls[i].text)
    /\ \E i \in DecisionCalls : ~calls[i].raised

\* C8: once a run has started, it eventually returns its result: it neither
\* loops forever nor ends with an exception.
C8_RunReturns == Started ~> (pc = "done" /\ Len(ret) = 3)

C8_Witness ==
    /\ pc = "done"
    /\ Len(ret) = 3
    /\ max_turns = 2
    /\ \E i, j, k \in DOMAIN calls :
         /\ calls[i].port = "clarifier" /\ calls[i].raised
         /\ calls[j].port = "search" /\ calls[j].raised
         /\ calls[k].port = "forced_decision" /\ calls[k].raised

\* C9: the turn index is strictly increasing along the transcript, never
\* exceeds max_turns + 1, and the i-th regular record has index i.
C9_TurnIndex ==
    /\ \A i, j \in DOMAIN history : i < j => history[i].turn < history[j].turn
    /\ \A i \in DOMAIN history :
         /\ history[i].turn <= max_turns + 1
         /\ i \notin ForcedRecords => history[i].turn = i

C9_Witness ==
    /\ max_turns = 2
    /\ Len(history) = 3
    /\ ForcedRecords = {3}
    /\ history[1].action_type = "search"

----------------------------------------------------------------------------
(* Properties of the grader *)

NoVerdictToken(text) ==
    ~Contains(Lower(text), <<"y", "e", "s">>) /\ ~Contains(Lower(text), <<"n", "o">>)

\* C10: the grader is fail-closed: calculate_score never raises; it returns 0
\* when the judge port raises and when the judge response holds neither
\* "yes" nor "no"; it returns 1 only for a response that holds "yes".
C10_FailClosed ==
    /\ g_pc # "raised"
    /\ g_pc = "returned" =>
         /\ score \in {0, 1}
         /\ judge.kind = "raise" => score = 0
         /\ judge.kind = "none" => score = 0
         /\ (judge.kind = "text" /\ NoVerdictToken(judge.text)) => score = 0
         /\ score = 1 => (judge.kind = "text" /\ Contains(Lower(judge.text), <<"y", "e", "s">>))

C10_Witness ==
    /\ g_pc = "returned"
    /\ judge.kind = "raise"
    /\ score = 0

----------------------------------------------------------------------------
(* Properties of ask() *)

ClarifierCalls == { i \in DOMAIN calls : calls[i].port = "clarifier" }

\* a failed clarifier call leaves its record, with an error field and the
\* response `sentinel`, at its turn, and the loop has moved on
ClarifierFailureRecorded(sentinel) ==
    \A i \in ClarifierCalls :
        calls[i].raised =>
            /\ pc # "raised"
            /\ Len(history) >= calls[i].turn
            /\ history[calls[i].turn].action_type = "ask"
            /\ "error" \in DOMAIN history[calls[i].turn]
            /\ history[calls[i].turn].response = sentinel
            /\ i = Len(calls) =>
                 /\ turn = calls[i].turn
                 /\ pc = IF calls[i].turn < max_turns THEN "decide" ELSE "force"

\* C19: for an action "ask:T" the question forwarded to the Clarifier is T,
\* the text after the "ask:" prefix.
C19_AskPayload ==
    \A i \in ClarifierCalls :
        /\ i > 1
        /\ IsDecision(calls[i - 1])
        /\ StartsWith(calls[i - 1].text, <<"a", "s", "k", ":">>)
        /\ calls[i].text = Strip(Drop(calls[i - 1].text, 4))

\* C20 as stated: a failed Clarifier call is caught, the turn record gets an
\* error field and the sentinel response "error", the record is appended and
\* the loop continues with the next turn.
C20_ClarifierFailure_error == ClarifierFailureRecorded(<<"e", "r", "r", "o", "r">>)

\* C20: a failed Clarifier call is caught, the turn record gets an error
\* field and the sentinel response "Error in response", the record is
\* appended and the loop continues with the next turn.
C20_ClarifierFailure == ClarifierFailureRecorded(<<"E", "r", "r", "o", "r", " ", "i", "n", " ", "r", "e", "s", "p", "o", "n", "s", "e">>)

C20_Witness ==
    /\ max_turns = 2
    /\ pc = "decide"
    /\ Len(calls) = 2
    /\ calls[2].port = "clarifier" /\ calls[2].raised
    /\ Len(history) = 1
----------------------------------------------------------------------------
(* Properties of the consensus scorer                                      *)

Scored == scorer.pc \in { "returned", "summarised" } /\ scorer.multi_model_mode

CommitteeSize == Len(scorer.evaluation_models)

\* the number of members whose answer the judge accepted, as observed
CorrectVerdicts == Cardinality({ i \in DOMAIN member_log : member_log[i].correct })

LastDetail == scorer.summary.detailed_results[Len(scorer.summary.detailed_results)]

\* C11: for a committee of three, quality_failed holds exactly when at least
\* two of the three verdicts are correct; when every member failed the count
\* is 0 and the flag false; the flag of each detailed result and the batch
\* quality_failed_count follow the same rule.
C11_QualityFailedOfThree ==
    (Scored /\ CommitteeSize = 3) =>
        /\ Len(member_log) = 3
        /\ scorer.row[4] = CorrectVerdicts
        /\ scorer.quality_failed = (CorrectVerdicts >= 2)
        /\ (\A i \in DOMAIN member_log : member_log[i].failed) =>
               (scorer.row[4] = 0 /\ ~scorer.quality_failed)
        /\ scorer.pc = "summarised" =>
             LET d == scorer.summary.detailed_results
             IN  /\ LastDetail.quality_failed = (CorrectVerdicts >= 2)
                 /\ \A i \in DOMAIN d :
                        d[i].quality_failed = (d[i].correct_models_count >= 2)
                 /\ scorer.summary.quality_failed_count =
                        Cardinality({ i \in DOMAIN d : d[i].correct_models_count >= 2 })

C11_Witness ==
    /\ scorer.pc = "summarised" /\ CommitteeSize = 3
    /\ CorrectVerdicts = 2
    /\ scorer.summary.total_questions = 2
    /\ scorer.summary.quality_failed_count = 2

\* C12: after scoring against any committee list the result holds one verdict
\* per configured member and the returned count is the number of recorded
\* verdicts marked correct.
C12_OneVerdictPerMember ==
    Scored =>
        /\ Cardinality(DOMAIN scorer.row[3]) = CommitteeSize
        /\ scorer.row[4] =
               Cardinality({ n \in DOMAIN scorer.row[3] : scorer.row[3][n].correct })

\* C13: a member's failure is caught and recorded as a verdict with correct
\* false, an error and cost 0; every member of the committee is still run,
\* in order, and the result with its score is returned.
C13_MemberFailureIsolated ==
    /\ (scorer.multi_model_mode /\ scorer.has_question) => scorer.pc # "raised"
    /\ (scorer.multi_model_mode /\ member_log # <<>>
            /\ member_log[Len(member_log)].failed) =>
         LET v == scorer.model_results[member_log[Len(member_log)].name]
         IN  /\ ~v.correct
             /\ "error" \in DOMAIN v
             /\ v.cost = 0
    /\ Scored =>
         /\ Len(member_log) = CommitteeSize
         /\ \A i \in DOMAIN member_log : member_log[i].name = scorer.evaluation_models[i]
         /\ \A i \in DOMAIN member_log : ~member_log[i].failed =>
                "error" \notin DOMAIN scorer.row[3][member_log[i].name]
                \/ \E j \in DOMAIN member_log : j > i /\ member_log[j].name = member_log[i].name
         /\ Len(scorer.row) = 6
         /\ scorer.row[5].den = CommitteeSize

C13_Witness ==
    /\ scorer.pc = "returned" /\ CommitteeSize = 3
    /\ scorer.evaluation_models = EVALUATION_MODELS
    /\ member_log[1].correct
    /\ ~member_log[2].correct /\ ~member_log[2].failed
    /\ member_log[3].failed
    /\ scorer.row[4] = 1

RECURSIVE SumOfCosts(_, _)
SumOfCosts(model_results, names) ==
    IF names = {} THEN 0
    ELSE LET n == CHOOSE n \in names : TRUE
         IN  model_results[n].cost + SumOfCosts(model_results, names \ {n})

\* C14: the total cost of a result is the sum of the costs of its recorded
\* verdicts, a failed member counting 0.
C14_TotalCost ==
    Scored => scorer.row[6] = SumOfCosts(scorer.row[3], DOMAIN scorer.row[3])

\* C15: for every committee size N and every outcome the returned
\* quality_score is 1 - correct_count/N: 2/3 for one right member of three,
\* 1 for none, 0 for all.
C15_QualityScore ==
    Scored =>
        LET q == scorer.row[5]
        IN  /\ q.den > 0
            /\ q.num * CommitteeSize = q.den * (CommitteeSize - scorer.row[4])
            /\ (CommitteeSize = 3 /\ scorer.row[4] = 1) => q.num * 3 = q.den * 2
            /\ scorer.row[4] = 0 => q.num = q.den
            /\ scorer.row[4] = CommitteeSize => q.num = 0

C15_Witness ==
    /\ scorer.pc = "returned" /\ CommitteeSize = 3
    /\ scorer.row[4] = 1 /\ CorrectVerdicts = 1
    /\ scorer.row[5] = [num |-> 2, den |-> 3]

\* C16 as stated: for a committee of any size N, quality_failed holds exactly
\* when correct_count >= ceil(N/2).
C16_MajorityRule ==
    Scored => scorer.quality_failed = (scorer.row[4] >= (CommitteeSize + 1) \div 2)

\* C16: for a committee of any size N, quality_failed holds exactly when
\* correct_count >= 2, in the result, in its detailed result and in the batch
\* count.
C16_FixedThreshold ==
    Scored =>
        /\ scorer.quality_failed = (scorer.row[4] >= 2)
        /\ scorer.pc = "summarised" =>
             /\ LastDetail.quality_failed = (scorer.row[4] >= 2)
             /\ (Len(scorer.summary.detailed_results) = 1) =>
                  scorer.summary.quality_failed_count = IF scorer.row[4] >= 2 THEN 1 ELSE 0

C16_Witness ==
    /\ scorer.pc = "summarised" /\ CommitteeSize = 2
    /\ scorer.row[4] = 1 /\ CorrectVerdicts = 1
    /\ ~scorer.quality_failed
    /\ ~LastDetail.quality_failed

\* C17: evaluate_problem never raises: for every problem record and every
\* failure it returns a row, and after a failure the row is the zero-valued
\* failure record.
C17_NeverRaises ==
    /\ scorer.pc # "raised"
    /\ (scorer.pc = "returned" /\ ~scorer.multi_model_mode /\ Len(scorer.row) = 6
            /\ scorer.row[3] = <<"E", "r", "r", "o", "r">>) =>
         (scorer.row[5] = 0 /\ scorer.row[6] = 0)
----------------------------------------------------------------------------
(* Properties of concurrent runs                                           *)

\* C18: runs in progress at the same time share no mutable state: every
\* Clarifier call of a run is answered against the hidden context of that
\* run's own problem, also when the runs use one agent object, and a run's
\* transcript holds only its own records.
C18_RunsIsolated ==
    \A r \in DOMAIN runs :
        /\ \A i \in DOMAIN runs[r].asks : runs[r].asks[i] = Context(runs[r].problem)
        /\ \A i \in DOMAIN runs[r].history : runs[r].history[i].run = r
----------------------------------------------------------------------------
(* Properties of search()                                                  *)

SearchCalls == { i \in DOMAIN calls : calls[i].port = "search" }

\* C21: a failing Search call is caught and its turn recorded with an empty
\* result list, count 0 and an error field; a search that returns (an empty
\* list included) is recorded with the count of its results and no error; in
\* both cases the loop continues with the next turn.
C21_SearchFailure ==
    \A i \in SearchCalls :
        LET t == calls[i].turn
        IN  /\ pc # "raised"
            /\ Len(history) >= t
            /\ history[t].action_type = "search"
            /\ history[t].search_results_count = Len(history[t].search_results)
            /\ calls[i].raised =>
                   /\ history[t].search_results = <<>>
                   /\ "error" \in DOMAIN history[t]
            /\ ~calls[i].raised => "error" \notin DOMAIN history[t]
            /\ i = Len(calls) =>
                   /\ turn = t
                   /\ pc = IF t < max_turns THEN "decide" ELSE "force"

C21_Witness ==
    /\ max_turns = 2 /\ pc = "force" /\ Len(history) = 2
    /\ Len(calls) = 4
    /\ calls[2].port = "search" /\ calls[2].raised
    /\ calls[4].port = "search" /\ ~calls[4].raised
    /\ history[2].search_results = <<>>
    /\ history[1].search_results_count = 0
----------------------------------------------------------------------------
(* Properties of the classification of actions                             *)

ActionKinds == { "ask", "search", "answer", "invalid" }

RegularRecords == DOMAIN history \ ForcedRecords

\* C22: the kind of a turn is decided by the prefix of its action text alone:
\* 'ask:' gives ask, 'search:' search, 'answer:' answer and every other text,
\* the failure and parse sentinels included, invalid; every record carries
\* exactly one of the four kinds.
C22_Classification ==
    /\ \A t \in DOMAIN history : history[t].action_type \in ActionKinds
    /\ \A t \in RegularRecords :
         LET a == history[t].action
             k == history[t].action_type
         IN  /\ (k = "ask") = StartsWith(a, <<"a", "s", "k", ":">>)
             /\ (k = "search") = StartsWith(a, <<"s", "e", "a", "r", "c", "h", ":">>)
             /\ (k = "answer") = StartsWith(a, <<"a", "n", "s", "w", "e", "r", ":">>)
             /\ (k = "invalid") = ~HasPrefix(a)
    /\ \A i \in DecisionCalls :
         (Len(history) >= calls[i].turn
             /\ calls[i].text \in { <<"n", "o", " ", "a", "c", "t", "i", "o", "n">>, <<"n", "o", "_", "r", "e", "s", "p", "o", "n", "s", "e">>,
                    <<"c", "a", "n", " ", "n", "o", "t", " ", "f", "i", "n", "d", " ", "f", "o", "r", "m", "a", "t", "t", "e", "d", " ", "a", "c", "t", "i", "o", "n", ",", " ", "i", " ", "n", "e", "e", "d", " ", "t", "o", " ", "u", "s", "e", " ", "<", "a", "c", "t", "i", "o", "n", ">", "<", "/", "a", "c", "t", "i", "o", "n", ">">> })
         => history[calls[i].turn].action_type = "invalid"

C22_Witness ==
    /\ max_turns = 2 /\ pc = "done" /\ Len(history) = 2
    /\ history[1].action = <<"A", "n", "s", "w", "e", "r", ":", "X">>
    /\ history[1].action_type = "invalid"
    /\ history[2].action = <<"a", "n", "s", "w", "e", "r", ":", "X">>
    /\ history[2].action_type = "answer"
----------------------------------------------------------------------------
(* Properties of the forced answer                                         *)

\* C23: when max_turns turns pass without an answer action the decision port
\* is invoked once more, with the forced-answer prompt; the final answer is
\* the payload after 'answer:' when the returned action has that prefix and
\* "No final answer provided" otherwise, a failed call included; a record
\* with forced = TRUE and index max_turns + 1 is appended.
C23_ForcedAnswer ==
    /\ (pc = "done" /\ AnswerCalls = {}) => Cardinality(ForcedCalls) = 1
    /\ \A i \in ForcedCalls :
         /\ i = Len(calls)
         /\ Cardinality(DecisionCalls) = max_turns
         /\ AnswerCalls = {}
         /\ pc = "done"
         /\ Len(history) = max_turns + 1
         /\ "forced" \in DOMAIN history[max_turns + 1]
         /\ history[max_turns + 1].forced
         /\ history[max_turns + 1].turn = max_turns + 1
         /\ history[max_turns + 1].final_answer =
                IF StartsWith(calls[i].text, <<"a", "n", "s", "w", "e", "r", ":">>)
                THEN Strip(Drop(calls[i].text, 7))
                ELSE <<"N", "o", " ", "f", "i", "n", "a", "l", " ", "a", "n", "s", "w", "e", "r", " ", "p", "r", "o", "v", "i", "d", "e", "d">>
         /\ calls[i].raised =>
                history[max_turns + 1].final_answer = <<"N", "o", " ", "f", "i", "n", "a", "l", " ", "a", "n", "s", "w", "e", "r", " ", "p", "r", "o", "v", "i", "d", "e", "d">>
         /\ ret[1] = history[max_turns + 1].final_answer

C23_Witness ==
    /\ max_turns = 2 /\ pc = "done" /\ Len(calls) = 3
    /\ IsForcedDecision(calls[3])
    /\ calls[3].text = <<"a", "n", "s", "w", "e", "r", ":", "X">>
    /\ history[3].final_answer = <<"X">>
    /\ history[3].forced
----------------------------------------------------------------------------
(* Properties of parse_response within the loop                            *)

ParseSentinels ==
    { [thought |-> <<"n", "o", "_", "r", "e", "s", "p", "o", "n", "s", "e">>, action |-> <<"n", "o", "_", "r", "e", "s", "p", "o", "n", "s", "e">>],
      [thought |-> <<"c", "a", "n", " ", "n", "o", "t", " ", "f", "i", "n", "d", " ", "f", "o", "r", "m", "a", "t", "t", "e", "d", " ", "t", "h", "o", "u", "g", "h", "t", ",", " ", "i", " ", "n", "e", "e", "d", " ", "t", "o", " ", "u", "s", "e", " ", "<", "t", "h", "o", "u", "g", "h", "t", ">", "<", "/", "t", "h", "o", "u", "g", "h", "t", ">">>,
       action |-> <<"c", "a", "n", " ", "n", "o", "t", " ", "f", "i", "n", "d", " ", "f", "o", "r", "m", "a", "t", "t", "e", "d", " ", "a", "c", "t", "i", "o", "n", ",", " ", "i", " ", "n", "e", "e", "d", " ", "t", "o", " ", "u", "s", "e", " ", "<", "a", "c", "t", "i", "o", "n", ">", "<", "/", "a", "c", "t", "i", "o", "n", ">">>] }

\* C24: malformed decision output never leaves the loop as a failure: when
\* the model's output is absent or lacks the thought segment, the action
\* segment or both, parsing gives the sentinel values for both fields, the
\* turn is recorded as invalid and uses up one turn, and the run goes on.
C24_MalformedOutput ==
    \A i \in DecisionCalls : calls[i].malformed =>
        LET t == calls[i].turn
        IN  /\ ~calls[i].raised
            /\ pc # "raised"
            /\ Len(history) >= t
            /\ [thought |-> history[t].thought, action |-> history[t].action]
                   \in ParseSentinels
            /\ history[t].action_type = "invalid"
            /\ history[t].turn = t
            /\ i = Len(calls) =>
                   /\ turn = t
                   /\ Len(history) = t
                   /\ pc = IF t < max_turns THEN "decide" ELSE "force"

C24_Witness ==
    /\ max_turns = 2 /\ pc = "force" /\ Len(history) = 2 /\ Len(calls) = 2
    /\ calls[1].malformed /\ calls[2].malformed
    /\ history[1].action = <<"n", "o", "_", "r", "e", "s", "p", "o", "n", "s", "e">>
    /\ history[2].action = <<"c", "a", "n", " ", "n", "o", "t", " ", "f", "i", "n", "d", " ", "f", "o", "r", "m", "a", "t", "t", "e", "d", " ", "a", "c", "t", "i", "o", "n", ",", " ", "i", " ", "n", "e", "e", "d", " ", "t", "o", " ", "u", "s", "e", " ", "<", "a", "c", "t", "i", "o", "n", ">", "<", "/", "a", "c", "t", "i", "o", "n", ">">>
----------------------------------------------------------------------------
(* Properties of UserAgent.answer                                          *)

\* C25: UserAgent.answer returns only "Yes", "No" or "idk" and never raises,
\* whatever the question, the hidden context and the backing model do; with
\* an empty question or an empty context it returns "idk" without calling
\* the model.
C25_ClarifierValues ==
    /\ clarifier.pc \in { "call", "await", "returned" }
    /\ clarifier.pc = "returned" =>
         /\ clarifier.result \in { <<"Y", "e", "s">>, <<"N", "o">>, <<"i", "d", "k">> }
         /\ (stripped_question(clarifier.question) = <<>> \/ clarifier.context = <<>>) =>
                (clarifier.result = <<"i", "d", "k">> /\ clarifier.llm_calls = 0)
         /\ clarifier.llm_calls <= 1
    /\ clarifier.pc # "returned" => clarifier.result = <<>>

C25_Witness ==
    /\ clarifier.pc = "returned"
    /\ clarifier.llm_calls = 1
    /\ clarifier.result = <<"i", "d", "k">>
    /\ clarifier.history # <<>>
    /\ clarifier.history[1].raw_response = <<"m", "a", "y", "b", "e">>
----------------------------------------------------------------------------
(* Properties of the exported report                                       *)

\* the flags of a written row that read back as true
FlagsReadTrue(row) == Cardinality({ c \in {4, 6, 8} : row[c] = <<"T", "r", "u", "e">> })

\* the correct-count cell of a written row, read back as a number
CountRead(row) == CHOOSE n \in 0..9 : <<Digit(n)>> = row[9]

\* C26: for every result written to the tabular report, the number of
\* per-engine correctness flags that read back as true in its row equals the
\* row's correct-count column.
C26_ExportRoundTrip ==
    report.pc = "written" =>
        /\ Len(report.rows) = Len(scorer.summary.detailed_results)
        /\ \A r \in DOMAIN report.rows :
             /\ \E n \in 0..9 : <<Digit(n)>> = report.rows[r][9]
             /\ FlagsReadTrue(report.rows[r]) = CountRead(report.rows[r])
             /\ CountRead(report.rows[r]) = scorer.summary.detailed_results[r].correct_models_count

C26_Witness ==
    /\ report.pc = "written"
    /\ Len(report.rows) = 1
    /\ report.rows[1][9] = <<"2">>
    /\ report.rows[1][4] = <<"F", "a", "l", "s", "e">>
    /\ report.rows[1][6] = <<"T", "r", "u", "e">>
    /\ member_log[1].failed
----------------------------------------------------------------------------
(* Properties of the two-phase clarifier                                   *)

HumanInUse == human.pc = "ready" /\ human.problem_data.allowed_slots # <<>>

\* easy_mode_state after the i-th query since the last reset
StateAfter(i) ==
    IF i < Len(human.interaction_history)
    THEN human.interaction_history[i + 1].state
    ELSE human.easy_mode_state

\* the categories whose identifier a question contains
NamedCategories(question) ==
    { i \in DOMAIN human.problem_data.allowed_slots :
        Contains(Strip(Lower(question)), Lower(human.problem_data.allowed_slots[i].id)) }

FirstQueryGivesCatalog ==
    human.interaction_history # <<>> =>
        /\ Contains(human.interaction_history[1].response, <<"w", "i", "n", "g", "s", "_", "k", "i", "n", "d", ":", " ", "s", "h", "a", "p", "e", " ", "o", "f", " ", "w", "i", "n", "g", "s", ";", " ", "t", "a", "i", "l", ":", " ">>)
        /\ human.interaction_history[1].response = catalog(human.problem_data.allowed_slots)
        /\ StateAfter(1) = "waiting_for_slot_choice"

\* C27 as stated: the first query after reset is answered with the catalog
\* and the agent then waits for a choice; a following query that names one
\* category (one that has detail items) returns those items and the agent
\* waits for a request again.
C27_TwoPhase_any ==
    HumanInUse =>
        /\ FirstQueryGivesCatalog
        /\ \A i \in DOMAIN human.interaction_history :
             LET e == human.interaction_history[i]
                 named == NamedCategories(e.question)
             IN  (e.state = "waiting_for_slot_choice" /\ Cardinality(named) = 1
                     /\ packs_with_items(human.problem_data.packs,
                            human.problem_data.allowed_slots[Least(named)].id) # <<>>)
                 => /\ e.response =
                          join(<<" ", "|", " ">>, packs_with_items(human.problem_data.packs,
                              human.problem_data.allowed_slots[Least(named)].id)[1].items)
                    /\ StateAfter(i) = "waiting_for_request"

\* C27: the first query after reset is answered with the catalog and the
\* agent then waits for a choice.  A following query with none of the
\* catalog phrases that contains a category identifier returns the items of
\* the first such category's first pack that has items, joined by " | ", or
\* the "No detailed information available" message when it has none, and the
\* agent waits for a request again; a following query with a catalog phrase
\* is answered with the catalog and the agent goes on waiting for a choice.
C27_TwoPhase ==
    HumanInUse =>
        /\ FirstQueryGivesCatalog
        /\ \A i \in DOMAIN human.interaction_history :
             LET e == human.interaction_history[i]
                 named == NamedCategories(e.question)
                 asks_catalog == is_requesting_categories(Strip(Lower(e.question)))
             IN  e.state = "waiting_for_slot_choice" =>
                 /\ asks_catalog =>
                      /\ e.response = catalog(human.problem_data.allowed_slots)
                      /\ StateAfter(i) = "waiting_for_slot_choice"
                 /\ (~asks_catalog /\ named # {}) =>
                      LET id == human.problem_data.allowed_slots[Least(named)].id
                          full == packs_with_items(human.problem_data.packs, id)
                      IN  /\ e.response =
                                IF full # <<>> THEN join(<<" ", "|", " ">>, full[1].items)
                                ELSE <<"N", "o", " ", "d", "e", "t", "a", "i", "l", "e", "d", " ", "i", "n", "f", "o", "r", "m", "a", "t", "i", "o", "n", " ", "a", "v", "a", "i", "l", "a", "b", "l", "e", " ", "f", "o", "r", " ">> \o id \o <<".">>
                          /\ (id = <<"w", "i", "n", "g", "s", "_", "k", "i", "n", "d">>) => e.response = <<"b", "r", "o", "a", "d", " ", "|", " ", "d", "a", "r", "k">>
                          /\ StateAfter(i) = "waiting_for_request"

C27_Witness ==
    /\ HumanInUse
    /\ Len(human.interaction_history) = 3
    /\ human.interaction_history[2].question = <<"w", "i", "n", "g", "s", "_", "k", "i", "n", "d">>
    /\ human.interaction_history[2].response = <<"b", "r", "o", "a", "d", " ", "|", " ", "d", "a", "r", "k">>
    /\ human.interaction_history[3].state = "waiting_for_request"
    /\ human.interaction_history[3].question = <<"w", "h", "a", "t", " ", "i", "n", "f", "o", "r", "m", "a", "t", "i", "o", "n", " ", "o", "n", " ", "t", "a", "i", "l">>
    /\ human.easy_mode_state = "waiting_for_slot_choice"
----------------------------------------------------------------------------
(* Properties of the order of the turns                                    *)

\* a record whose port outcome is filled in
Sealed(rec) ==
    /\ rec.action_type = "ask" => "response" \in DOMAIN rec
    /\ rec.action_type = "search" =>
           ("search_results" \in DOMAIN rec /\ "search_results_count" \in DOMAIN rec)

PromptHoldsCompletedTurns ==
    \A i \in DecisionCalls \cup ForcedCalls :
        LET t == calls[i].turn
            seen == calls[i].prompt.history
        IN  /\ Len(seen) = t - 1
            /\ \A k \in DOMAIN seen : seen[k].turn = k /\ Sealed(seen[k])
            /\ IsDecision(calls[i]) => calls[i].prompt.turn = t
            /\ Len(history) >= t - 1
            /\ seen = SubSeq(history, 1, t - 1)

\* C28: the turns of a run are strictly sequential: the prompt of the
\* decision for turn t holds exactly the t-1 completed records of turns
\* 1..t-1, in order, each with its clarifier or search outcome filled in; a
\* record once appended is never changed or removed.
C28_Sequential ==
    /\ []PromptHoldsCompletedTurns
    /\ [][ /\ Len(history') >= Len(history)
           /\ SubSeq(history', 1, Len(history)) = history ]_vars

C28_Witness ==
    /\ max_turns = 2 /\ Len(calls) = 4
    /\ calls[2].port = "clarifier"
    /\ calls[3].port = "decision"
    /\ Len(calls[3].prompt.history) = 1
    /\ calls[3].prompt.history[1].response = <<"Y", "e", "s">>
    /\ calls[4].port = "search"
    /\ Len(history) = 2
----------------------------------------------------------------------------
(* Properties of the verdict of calculate_score                            *)

\* the response holds tok as a word of its own, case and punctuation apart
HasToken(text, tok) ==
    \E k \in DOMAIN words(Lower(Strip(text))) :
        strip_punctuation(words(Lower(Strip(text)))[k]) = tok

\* C29: the verdict is decided by the yes/no tokens of the judge response,
\* case-insensitively: a response containing 'yes' is graded correct, one
\* containing 'no' incorrect, one containing neither incorrect; a response
\* that contains the token 'no' is never graded correct.
C29_TokenVerdict ==
    (g_pc = "returned" /\ judge.kind = "text") =>
        /\ HasToken(judge.text, <<"n", "o">>) => score = 0
        /\ (HasToken(judge.text, <<"y", "e", "s">>) /\ ~HasToken(judge.text, <<"n", "o">>)) => score = 1
        /\ NoVerdictToken(judge.text) => score = 0
----------------------------------------------------------------------------
(* Properties of _generate_output                                          *)

AllRaised(tries) == \A k \in DOMAIN tries : tries[k].kind = "raise"

\* the attempts end with the first one that returned
EndsAtFirstReturn(tries) ==
    /\ tries # <<>>
    /\ tries[Len(tries)].kind = "ok"
    /\ \A k \in 1..(Len(tries) - 1) : tries[k].kind = "raise"

\* at most RetryAttempts attempts; a returning attempt is the last; the
\* member's verdict is graded once, on what that attempt returned; in
\* single-model mode the failure row follows RetryAttempts failed attempts
RetryDiscipline ==
    /\ scorer.pc # "idle" =>
         /\ Len(scorer.tries) <= RetryAttempts
         /\ scorer.pc = "grade" =>
              (EndsAtFirstReturn(scorer.tries)
                  /\ scorer.run.cost = scorer.tries[Len(scorer.tries)].cost)
         /\ scorer.pc = "run" => AllRaised(scorer.tries)
         /\ (scorer.pc = "returned" /\ ~scorer.multi_model_mode) =>
              IF scorer.row = failure_row(FALSE)
              THEN Len(scorer.tries) = RetryAttempts /\ AllRaised(scorer.tries)
              ELSE EndsAtFirstReturn(scorer.tries)
    /\ \A i \in DOMAIN member_log :
         LET e == member_log[i]
         IN  /\ Len(e.tries) <= RetryAttempts
             /\ ~e.failed =>
                  /\ EndsAtFirstReturn(e.tries)
                  /\ Len(e.graded) = 1
                  /\ e.graded[1].cost = e.tries[Len(e.tries)].cost
                  /\ e.cost = e.graded[1].cost
                  /\ i = Len(member_log) =>
                       scorer.model_results[e.name].answer = e.graded[1].answer

\* C30 as stated: _generate_output makes at most 3 attempts, returns what
\* the first attempt that does not raise returned and raises only when all 3
\* raised; so a member is recorded as failed only after its third failed
\* attempt, and is graded once, on the answer of the successful attempt.
C30_FailedAfterThirdAttempt ==
    /\ RetryDiscipline
    /\ \A i \in DOMAIN member_log :
         member_log[i].failed =>
             (Len(member_log[i].tries) = RetryAttempts /\ AllRaised(member_log[i].tries))

\* C30: _generate_output makes at most 3 attempts, returns what the first
\* attempt that does not raise returned and raises only when all 3 raised;
\* a member whose agent was constructed is recorded as failed only after its
\* third failed attempt, a member whose agent could not be constructed is
\* recorded as failed without any attempt; a member is graded once, on the
\* answer of the successful attempt.
C30_RetryThenFail ==
    /\ RetryDiscipline
    /\ \A i \in DOMAIN member_log :
         member_log[i].failed =>
             /\ AllRaised(member_log[i].tries)
             /\ Len(member_log[i].tries) \in { 0, RetryAttempts }
             /\ member_log[i].graded = <<>>

C30_Witness ==
    /\ scorer.pc = "returned" /\ scorer.multi_model_mode
    /\ Len(member_log) = 3
    /\ member_log[1].failed /\ member_log[1].tries = <<>>
    /\ member_log[2].failed /\ Len(member_log[2].tries) = 3
    /\ ~member_log[3].failed /\ Len(member_log[3].tries) = 3
    /\ member_log[3].tries[3].cost = 1
----------------------------------------------------------------------------
(* The cost reported by a run                                              *)

RECURSIVE SumCostFields(_)
SumCostFields(h) ==
    IF h = <<>> THEN 0 ELSE h[Len(h)].cost + SumCostFields(SubSeq(h, 1, Len(h) - 1))

\* C31: the total_cost a run returns is the sum of the cost fields of the
\* records of the returned transcript, the forced-answer record included,
\* and is never negative.
C31_CostIsSumOfRecords ==
    pc = "done" =>
        /\ ret[3] = SumCostFields(ret[2])
        /\ ret[3] >= 0
        /\ \A i \in DOMAIN ret[2] : "cost" \in DOMAIN ret[2][i]

C31_Witness ==
    /\ pc = "done"
    /\ Len(ret[2]) = 3
    /\ "forced" \in DOMAIN ret[2][3]
    /\ ret[2][3].cost = 1
    /\ ret[2][1].cost = 1
    /\ ret[2][2].cost = 0
    /\ ret[3] = 2
----------------------------------------------------------------------------
(* RemindWorkflow.__call__ (workflow/remind.py): the decision loop with    *)
(* the structured call of the decision port and its textual fallback.  The *)
(* HumanAgent is a port here; its EASY mode is modelled above.             *)

\* what llm.call_with_format(prompt, formatter) can do: raise, or give a
\* dict that may lack either key
StructuredOutcomes ==
    { [kind |-> "raise"] }
    \cup { [kind |-> "ok", has_thought |-> TRUE, has_action |-> TRUE, action |-> a]
           : a \in { <<"a", "n", "s", "w", "e", "r", ":", " ", "X">>, <<"a", "s", "k", ":", " ", "q">>, <<"s", "e", "a", "r", "c", "h", ":", "q">>, <<"h", "e", "l", "l", "o">> } }
    \cup { [kind |-> "ok", has_thought |-> FALSE, has_action |-> TRUE, action |-> <<"a", "s", "k", ":", " ", "q">>],
           [kind |-> "ok", has_thought |-> TRUE, has_action |-> FALSE, action |-> <<>>] }

\* what the plain call llm(prompt) of the fallback can do: raise, or give a
\* text, described by the content of its <thought> and <action> segments and
\* by its lines
FallbackOutcomes ==
    { [kind |-> "raise"],
      [kind |-> "text", has_thought |-> TRUE, has_action |-> TRUE,
       thought |-> <<" ", "t", " ">>, action |-> <<" ", "a", "s", "k", ":", "q", " ">>, lines |-> <<>>],
      [kind |-> "text", has_thought |-> FALSE, has_action |-> TRUE,
       thought |-> <<>>, action |-> <<"a", "s", "k", ":", "q">>, lines |-> <<<<"<", "a", "c", "t", "i", "o", "n", ">", "a", "s", "k", ":", "q", "<", "/", "a", "c", "t", "i", "o", "n", ">">>>>],
      [kind |-> "text", has_thought |-> FALSE, has_action |-> FALSE,
       thought |-> <<>>, action |-> <<>>, lines |-> <<<<"I", " ", "t", "h", "i", "n", "k">>, <<" ", "s", "e", "a", "r", "c", "h", ":", "q", " ">>, <<"a", "n", "s", "w", "e", "r", ":", "X">>>>],
      [kind |-> "text", has_thought |-> FALSE, has_action |-> FALSE,
       thought |-> <<>>, action |-> <<>>, lines |-> <<<<"h", "e", "l", "l", "o">>>>] }

\* what human_agent.respond_to_question can do for the loop
HumanOutcomes == { [kind |-> "raise"], [kind |-> "text", text |-> <<"R">>] }

\* the first line that, stripped, starts with ask:, search: or answer:
first_action_line(lines) ==
    LET hits == SelectSeq([i \in DOMAIN lines |-> Strip(lines[i])],
                          LAMBDA line : \/ StartsWith(line, <<"a", "s", "k", ":">>)
                                        \/ StartsWith(line, <<"s", "e", "a", "r", "c", "h", ":">>)
                                        \/ StartsWith(line, <<"a", "n", "s", "w", "e", "r", ":">>))
    IN  IF hits = <<>> THEN <<"a", "n", "s", "w", "e", "r", ":", "U", "n", "a", "b", "l", "e", " ", "t", "o", " ", "p", "a", "r", "s", "e", " ", "a", "c", "t", "i", "o", "n">> ELSE hits[1]

\* _parse_text_response
_parse_text_response(response) ==
    IF response.has_thought /\ response.has_action
    THEN [thought |-> Strip(response.thought), action |-> Strip(response.action)]
    ELSE [thought |-> <<"U", "n", "a", "b", "l", "e", " ", "t", "o", " ", "p", "a", "r", "s", "e", " ", "t", "h", "o", "u", "g", "h", "t">>, action |-> first_action_line(response.lines)]

\* _get_agent_decision up to the end of the structured call; fallback = TRUE
\* when the except branch is entered
structured_decision(s, c) ==
    IF s.kind = "raise"
    THEN [fallback |-> TRUE, thought |-> <<>>, action |-> <<>>, cost |-> 0]
    ELSE [fallback |-> FALSE,
          thought |-> IF s.has_thought THEN <<"T">> ELSE <<"N", "o", " ", "t", "h", "o", "u", "g", "h", "t">>,
          action |-> IF s.has_action THEN s.action ELSE <<"a", "n", "s", "w", "e", "r", ":", "N", "o", " ", "a", "c", "t", "i", "o", "n">>,
          cost |-> c]

\* the except branch of _get_agent_decision, lines 299-307: nothing catches
\* an exception of the plain call
fallback_decision(f, c) ==
    IF f.kind = "raise"
    THEN [raised |-> TRUE, thought |-> <<>>, action |-> <<>>, cost |-> 0]
    ELSE [raised |-> FALSE, thought |-> _parse_text_response(f).thought,
          action |-> _parse_text_response(f).action, cost |-> c]

\* _format_search_results
_format_search_results(results) ==
    IF results = <<>>
    THEN <<"N", "o", " ", "r", "e", "s", "u", "l", "t", "s", " ", "f", "o", "u", "n", "d">>
    ELSE join(<<";", " ">>, [i \in 1..(IF Len(results) < 3 THEN Len(results) ELSE 3) |->
                        <<Digit(i)>> \o <<".", " ">> \o results[i].title \o <<":", " ">> \o results[i].snippet])

\* `for turn in range(self.max_turns)` of RemindWorkflow
remind_loop(r, t) ==
    [r EXCEPT !.turn = t, !.pc = IF t < r.max_turns THEN "decide" ELSE "force"]

\* lines 88-171 up to the next await or return, for the decision d; h is
\* what the human agent does when asked
remind_dispatch(r, d, h) ==
    LET remind_record == [turn |-> r.turn + 1, thought |-> d.thought, action |-> d.action,
                        cost |-> d.cost]
        r1 == [r EXCEPT !.total_cost = @ + d.cost]
    IN  IF StartsWith(d.action, <<"a", "n", "s", "w", "e", "r", ":">>)
        THEN LET final_answer == Strip(Drop(d.action, 7))
                 context == Append(r.context, [final_answer |-> final_answer] @@ remind_record)
             IN  [r1 EXCEPT !.context = context, !.pc = "done",
                            !.ret = <<final_answer, context, r1.total_cost>>]
        ELSE IF StartsWith(d.action, <<"a", "s", "k", ":">>)
        THEN remind_loop(
                 [r1 EXCEPT !.context = Append(@,
                     [question_asked |-> Strip(Drop(d.action, 4)),
                      human_response |-> IF h.kind = "raise" THEN <<"E", "r", "r", "o", "r", " ", "i", "n", " ", "r", "e", "s", "p", "o", "n", "s", "e">>
                                         ELSE h.text] @@ remind_record)],
                 r.turn + 1)
        ELSE IF StartsWith(d.action, <<"s", "e", "a", "r", "c", "h", ":">>)
        THEN [r1 EXCEPT !.pc = "search",
                        !.pending = [search_query |-> Strip(Drop(d.action, 7))] @@ remind_record]
        ELSE remind_loop(
                 [r1 EXCEPT !.context = Append(@,
                     [error |-> <<"I", "n", "v", "a", "l", "i", "d", " ", "a", "c", "t", "i", "o", "n", ":", " ">> \o d.action] @@ remind_record)],
                 r.turn + 1)

\* the return value of _force_final_answer for the decision d
forced_answer(d) ==
    IF StartsWith(d.action, <<"a", "n", "s", "w", "e", "r", ":">>) THEN Strip(Drop(d.action, 7))
    ELSE <<"N", "o", " ", "f", "i", "n", "a", "l", " ", "a", "n", "s", "w", "e", "r", " ", "p", "r", "o", "v", "i", "d", "e", "d">>

\* lines 177-190: the forced record and the return
remind_finish(r, final_answer, final_cost) ==
    LET context == Append(r.context, [turn |-> r.max_turns + 1, final_answer |-> final_answer,
                                      forced |-> TRUE, cost |-> final_cost])
    IN  [r EXCEPT !.total_cost = @ + final_cost, !.context = context, !.pc = "done",
                  !.ret = <<final_answer, context, r.total_cost + final_cost>>]

\* an entry of the log of failed calls of the decision port (observed)
PortFailure(r, call) == [turn |-> r.turn + 1, forced |-> r.pc \in { "force", "force_fallback" },
                         call |-> call]

\* lines 66-79: problem_data["q0"] raises KeyError on a missing key
RemindCall ==
    /\ remind.pc = "init"
    /\ remind' = IF remind.has_q0
                 THEN remind_loop([remind EXCEPT !.context = <<>>, !.total_cost = 0], 0)
                 ELSE [remind EXCEPT !.pc = "raised"]
    /\ UNCHANGED <<agent_vars, grader_vars, scorer_vars, conc_vars, clarifier, report, human,
                   auth, web>>

\* a regular turn from the return of llm.call_with_format
RemindDecide ==
    /\ remind.pc = "decide"
    /\ \E s \in StructuredOutcomes, c \in Costs, h \in HumanOutcomes :
         LET d == structured_decision(s, c)
         IN  remind' = IF d.fallback
                       THEN [remind EXCEPT !.pc = "fallback",
                                !.failures = Append(@, PortFailure(remind, "structured"))]
                       ELSE remind_dispatch(remind, d, h)
    /\ UNCHANGED <<agent_vars, grader_vars, scorer_vars, conc_vars, clarifier, report, human,
                   auth, web>>

\* a regular turn from the return of the plain call of the fallback
RemindFallback ==
    /\ remind.pc = "fallback"
    /\ \E f \in FallbackOutcomes, c \in Costs, h \in HumanOutcomes :
         LET d == fallback_decision(f, c)
         IN  remind' = IF d.raised
                       THEN [remind EXCEPT !.pc = "raised",
                                !.failures = Append(@, PortFailure(remind, "plain"))]
                       ELSE remind_dispatch([remind EXCEPT !.pc = "decide"], d, h)
    /\ UNCHANGED <<agent_vars, grader_vars, scorer_vars, conc_vars, clarifier, report, human,
                   auth, web>>

\* lines 145-164 from the return of search_engine.search
RemindSearchReturn ==
    /\ remind.pc = "search"
    /\ \E o \in SearchOutcomes :
         remind' = remind_loop(
             [remind EXCEPT
                 !.pending = NoRecord,
                 !.context = Append(@,
                     IF o.kind = "raise"
                     THEN [search_results |-> <<>>, formatted_results |-> <<"S", "e", "a", "r", "c", "h", " ", "f", "a", "i", "l", "e", "d">>]
                          @@ remind.pending
                     ELSE [search_results |-> o.results,
                           formatted_results |-> _format_search_results(o.results)]
                          @@ remind.pending)],
             remind.turn + 1)
    /\ UNCHANGED <<agent_vars, grader_vars, scorer_vars, conc_vars, clarifier, report, human,
                   auth, web>>

\* _force_final_answer from the return of llm.call_with_format
RemindForce ==
    /\ remind.pc = "force"
    /\ \E s \in StructuredOutcomes, c \in Costs :
         LET d == structured_decision(s, c)
         IN  remind' = IF d.fallback
                       THEN [remind EXCEPT !.pc = "force_fallback",
                                !.failures = Append(@, PortFailure(remind, "structured"))]
                       ELSE remind_finish(remind, forced_answer(d), d.cost)
    /\ UNCHANGED <<agent_vars, grader_vars, scorer_vars, conc_vars, clarifier, report, human,
                   auth, web>>

\* _force_final_answer from the return of the plain call; its except branch
\* catches what _get_agent_decision lets through
RemindForceFallback ==
    /\ remind.pc = "force_fallback"
    /\ \E f \in FallbackOutcomes, c \in Costs :
         LET d == fallback_decision(f, c)
         IN  remind' = IF d.raised
                       THEN remind_finish(
                                [remind EXCEPT
                                    !.failures = Append(@, PortFailure(remind, "plain"))],
                                <<"E", "r", "r", "o", "r", " ", "g", "e", "n", "e", "r", "a", "t", "i", "n", "g", " ", "f", "i", "n", "a", "l", " ", "a", "n", "s", "w", "e", "r">>, 0)
                       ELSE remind_finish(remind, forced_answer(d), d.cost)
    /\ UNCHANGED <<agent_vars, grader_vars, scorer_vars, conc_vars, clarifier, report, human,
                   auth, web>>

RemindInit ==
    /\ AgentIdle /\ ScorerIdle /\ ConcIdle /\ ClarifierIdle /\ ReportIdle /\ HumanIdle
    /\ AuthIdle /\ WebIdle
    /\ g_pc = "idle" /\ judge = [kind |-> "none"] /\ score = 0
    /\ \E m \in 0..MaxTurnsBound, q \in BOOLEAN :
         remind = [pc |-> "init", has_q0 |-> q, max_turns |-> m, turn |-> 0, context |-> <<>>,
                   total_cost |-> 0, pending |-> NoRecord, ret |-> <<>>, failures |-> <<>>]

RemindNext ==
    \/ RemindCall \/ RemindDecide \/ RemindFallback \/ RemindSearchReturn
    \/ RemindForce \/ RemindForceFallback

SpecRemind == RemindInit /\ [][RemindNext]_vars

\* C32 as stated: in RemindWorkflow a failure of the decision port in a
\* regular turn is never fatal to the run: the run goes on to later turns or
\* to the forced answer and returns a result instead of raising.
C32_DecisionFailureNotFatal ==
    (\E i \in DOMAIN remind.failures : ~remind.failures[i].forced) => remind.pc # "raised"
----------------------------------------------------------------------------
(* Consecutive category choices in EASY mode                               *)

\* the detail items of the category a question is the exact name of, in a
\* one-element set; empty when the question is not such a name
DetailsOfNamed(question) ==
    { join(<<" ", "|", " ">>, packs_with_items(human.problem_data.packs,
                                    human.problem_data.allowed_slots[k].id)[1].items) :
        k \in { n \in DOMAIN human.problem_data.allowed_slots :
                  /\ Strip(Lower(question)) = human.problem_data.allowed_slots[n].id
                  /\ packs_with_items(human.problem_data.packs,
                                      human.problem_data.allowed_slots[n].id) # <<>> } }

\* C33 as stated: in EASY mode, once the catalog has been given, the agent
\* can choose several categories in consecutive asks, and every ask that names
\* a valid category returns the detail items of that category.
C33_ConsecutiveCategories ==
    HumanInUse =>
        \A i \in DOMAIN human.interaction_history :
            (\E j \in 1..(i - 1) :
                human.interaction_history[j].response
                    = catalog(human.problem_data.allowed_slots))
            => \A details \in DetailsOfNamed(human.interaction_history[i].question) :
                   human.interaction_history[i].response = details
----------------------------------------------------------------------------
(* UserManager sessions (utils/user_manager.py) and the authentication of  *)
(* requests (web_api.py).  Time is counted in hours; a token is a number,  *)
(* secrets.token_urlsafe giving one that was never given before.           *)

\* timedelta(hours=24)
SessionHours == 24

\* the moments at which something happens: the end of each session length
\* and the hour after it
Moments == { h * SessionHours + e : h \in 0..MaxDays, e \in { 0, 1 } }

UserIds == { "u1", "u2" }

None == "None"

\* the Authorization headers a request can carry
Headers ==
    { [kind |-> "none"], [kind |-> "basic"] }
    \cup { [kind |-> "bearer", token |-> t] : t \in 0..MaxTokens }

\* create_session: the store with the new session
create_session(sessions, session_token, user_id, now) ==
    [t \in DOMAIN sessions \cup { session_token } |->
        IF t = session_token
        THEN [user_id |-> user_id, created_at |-> now, expires_at |-> now + SessionHours]
        ELSE sessions[t]]

\* as validate_session, an expired session left in the store
validate_session_keep_expired(sessions, session_token, now) ==
    IF session_token \notin DOMAIN sessions
    THEN [sessions |-> sessions, user_id |-> None]
    ELSE IF now > sessions[session_token].expires_at
    THEN [sessions |-> sessions, user_id |-> None]
    ELSE [sessions |-> sessions, user_id |-> sessions[session_token].user_id]

\* validate_session: the store it leaves and the user id or None
validate_session(sessions, session_token, now) ==
    IF session_token \notin DOMAIN sessions
    THEN [sessions |-> sessions, user_id |-> None]
    ELSE IF now > sessions[session_token].expires_at
    THEN [sessions |-> [t \in DOMAIN sessions \ { session_token } |-> sessions[t]],
          user_id |-> None]
    ELSE [sessions |-> sessions, user_id |-> sessions[session_token].user_id]

\* get_current_user: the store it leaves, the status code and the user;
\* get_user_info finds every user of UserIds
get_current_user(sessions, authorization, now) ==
    IF authorization.kind # "bearer"
    THEN [sessions |-> sessions, code |-> 401, user_id |-> None]
    ELSE LET v == validate_session(sessions, authorization.token, now)
         IN  IF v.user_id = None
             THEN [sessions |-> v.sessions, code |-> 401, user_id |-> None]
             ELSE IF v.user_id \notin UserIds
             THEN [sessions |-> v.sessions, code |-> 401, user_id |-> None]
             ELSE [sessions |-> v.sessions, code |-> 200, user_id |-> v.user_id]

\* what a request carried and what validate_session made of it (observed):
\* the token, whether create_session had given it out, whether its 24 hours
\* since then were over, whether
\* it had been used for a logout, the answer, whether the store changed
AuthSeen(a, token, g) ==
    [token |-> token, user_id |-> g.user_id, code |-> g.code,
     issued |-> token \in DOMAIN a.issued,
     expired |-> token \in DOMAIN a.issued /\ a.now > a.issued[token].at + SessionHours,
     changed |-> g.sessions # a.sessions,
     after_logout |-> token = a.logged_out]

\* POST /auth/login: authenticate_user, then create_session
LoginUser ==
    /\ auth.pc = "ready"
    /\ auth.next_token <= MaxTokens
    /\ \E user_id \in UserIds, password_ok \in BOOLEAN :
         IF password_ok
         THEN auth' = [auth EXCEPT
                  !.sessions = create_session(@, auth.next_token, user_id, auth.now),
                  !.issued = [t \in DOMAIN @ \cup { auth.next_token } |->
                                 IF t = auth.next_token
                                 THEN [user_id |-> user_id, at |-> auth.now] ELSE @[t]],
                  !.next_token = @ + 1]
         ELSE auth' = [auth EXCEPT !.rejected_logins = TRUE]
    /\ UNCHANGED <<agent_vars, grader_vars, scorer_vars, conc_vars, clarifier, report, human,
                   remind, web>>

\* GET /auth/me, as every request that depends on get_current_user
AuthenticatedRequest ==
    /\ auth.pc = "ready"
    /\ \E authorization \in Headers :
         LET g == get_current_user(auth.sessions, authorization, auth.now)
         IN  auth' = [auth EXCEPT
                 !.sessions = g.sessions,
                 !.last = IF authorization.kind = "bearer"
                          THEN <<AuthSeen(auth, authorization.token, g)>>
                          ELSE @]
    /\ UNCHANGED <<agent_vars, grader_vars, scorer_vars, conc_vars, clarifier, report, human,
                   remind, web>>

\* POST /auth/logout: answers 200 and touches nothing; logged_out observes
\* the session token of the last logout
LogoutUser ==
    /\ auth.pc = "ready"
    /\ \E authorization \in Headers :
         /\ authorization.kind = "bearer"
         /\ authorization.token \in DOMAIN auth.sessions
         /\ auth' = [auth EXCEPT !.logged_out = authorization.token]
    /\ UNCHANGED <<agent_vars, grader_vars, scorer_vars, conc_vars, clarifier, report, human,
                   remind, web>>

\* datetime.now() moves on
Tick ==
    /\ auth.pc = "ready"
    /\ \E now \in Moments :
         /\ now > auth.now
         /\ auth' = [auth EXCEPT !.now = now]
    /\ UNCHANGED <<agent_vars, grader_vars, scorer_vars, conc_vars, clarifier, report, human,
                   remind, web>>

\* UserManager() on an empty sessions.json
AuthInit ==
    /\ AgentIdle /\ ScorerIdle /\ ConcIdle /\ ClarifierIdle /\ ReportIdle /\ HumanIdle
    /\ RemindIdle /\ WebIdle
    /\ g_pc = "idle" /\ judge = [kind |-> "none"] /\ score = 0
    /\ auth = [pc |-> "ready", sessions |-> <<>>, now |-> 0, next_token |-> 1,
               issued |-> <<>>, logged_out |-> 0, rejected_logins |-> FALSE, last |-> <<>>]

AuthNext == LoginUser \/ AuthenticatedRequest \/ LogoutUser \/ Tick

SpecAuth == AuthInit /\ [][AuthNext]_vars

\* C35 as stated: after a logout request made with a session token, that
\* token no longer authenticates any request.
C35_LogoutClearsSession ==
    \A i \in DOMAIN auth.last : auth.last[i].after_logout => auth.last[i].code = 401

\* the session was given out and its 24 hours are over
Expired(session_token) ==
    session_token \in DOMAIN auth.issued
        /\ auth.now > auth.issued[session_token].at + SessionHours

\* C36: validate_session gives a user id only for a token that create_session
\* gave out for that user and that has not expired; validating an expired
\* token removes it from the store, so that it is rejected ever after; an
\* unknown token is rejected and the store is left as it was.
C36_ValidateSession ==
    /\ \A i \in DOMAIN auth.last :
         LET seen == auth.last[i]
         IN  /\ seen.user_id # None =>
                  /\ seen.issued
                  /\ auth.issued[seen.token].user_id = seen.user_id
                  /\ ~seen.expired
             /\ (seen.issued /\ ~seen.expired) =>
                  (seen.user_id = auth.issued[seen.token].user_id /\ ~seen.changed)
             /\ ~seen.issued => (seen.user_id = None /\ ~seen.changed)
             /\ seen.expired =>
                  (seen.user_id = None /\ seen.token \notin DOMAIN auth.sessions)
    /\ \A t \in DOMAIN auth.issued : t \notin DOMAIN auth.sessions => Expired(t)

C36_Witness ==
    /\ auth.last # <<>>
    /\ auth.last[1].token = 1
    /\ auth.last[1].expired
    /\ ~auth.last[1].changed
    /\ auth.last[1].user_id = None
    /\ 2 \in DOMAIN auth.sessions
----------------------------------------------------------------------------
(* The web service (web_api.py): files, evaluation tasks, TaskManager and  *)
(* the task coroutines.  A request handler without await, and a coroutine  *)
(* between two awaits, run without anything else in between; an async      *)
(* function that never awaits (merge_uploaded_files) does not suspend its  *)
(* caller.  A task id is a number, uuid4 giving one never given before.    *)

\* "max_concurrent_tasks": 5 of /system/status
max_concurrent_tasks == 5

FileIds == { "f1", "f2" }

\* the file_ids of a start_test request
FileIdLists == { <<>>, <<"f1">> }

\* d[k] = v
Put(d, k, v) == [x \in DOMAIN d \cup { k } |-> IF x = k THEN v ELSE d[x]]

Elems(s) == { s[i] : i \in DOMAIN s }

\* what the task shows after an update (observed)
Shown(w, task_id) ==
    [status |-> w.shared_tasks[task_id].status, progress |-> w.shared_tasks[task_id].progress]

\* UserDataManager.save_user_task
save_user_task(w, user_id, task_id, task_info) ==
    LET w1 == [w EXCEPT !.user_tasks[user_id] = Put(@, task_id, task_info),
                        !.shared_tasks = Put(@, task_id, [user_id |-> user_id] @@ task_info)]
    IN  [w1 EXCEPT !.trace = Put(@, task_id, <<Shown(w1, task_id)>>)]

\* UserDataManager.update_task: dict.update on the user's copy and on the
\* shared copy, each where it exists
update_task(w, user_id, task_id, updates) ==
    LET w1 == [w EXCEPT
                  !.user_tasks[user_id] =
                      IF task_id \in DOMAIN @ THEN Put(@, task_id, updates @@ @[task_id]) ELSE @,
                  !.shared_tasks =
                      IF task_id \in DOMAIN @ THEN Put(@, task_id, updates @@ @[task_id]) ELSE @]
    IN  IF task_id \in DOMAIN w1.shared_tasks
        THEN [w1 EXCEPT !.trace[task_id] = Append(@, Shown(w1, task_id))]
        ELSE w1

\* update_task called with each element of a sequence of updates in turn
RECURSIVE update_task_each(_, _, _, _)
update_task_each(w, user_id, task_id, updates) ==
    IF updates = <<>> THEN w
    ELSE update_task_each(update_task(w, user_id, task_id, updates[1]), user_id, task_id,
                          SubSeq(updates, 2, Len(updates)))

\* TaskManager.start_task: the wrapped coroutine is created and registered
start_task(w, task_id) ==
    IF task_id \in w.running_tasks
    THEN w
    ELSE [w EXCEPT !.running_tasks = @ \cup { task_id },
                   !.coro = Put(@, task_id, "scheduled")]

\* as unregister, the entry left where it is
unregister_nothing(running_tasks, task_id) == running_tasks

\* cleanup, lines 84-86: del self.running_tasks[task_id] when it is there
unregister(running_tasks, task_id) == running_tasks \ { task_id }

\* as file_in_running_task, no task ever holding a file
file_in_running_task_never(user_tasks, file_id) == FALSE

\* delete_user_file, lines 301-304: a running task of the user lists the file
file_in_running_task(user_tasks, file_id) ==
    \E task_id \in DOMAIN user_tasks :
        /\ user_tasks[task_id].status = "running"
        /\ file_id \in Elems(user_tasks[task_id].file_ids)

\* merge_uploaded_files raises when a listed file of the user cannot be
\* opened or, being .json, cannot be parsed (unreadable)
merge_raises(w, user_id, file_ids, unreadable) ==
    \E f \in Elems(file_ids) :
        f \in w.files[user_id] /\ (f \notin w.disk \/ unreadable)

\* what the environment can do to a step: nothing, or make it raise
Faults(w) == IF w.faults THEN BOOLEAN ELSE { FALSE }

\* a delete request and its answer (observed): whether the file was among
\* the user's files, whether a running task of the user in the shared list
\* named it, whether the records or the stored files changed
DeleteSeen(w, user_id, file_id, code, w1) ==
    [user_id |-> user_id, file_id |-> file_id, code |-> code,
     listed |-> file_id \in w.files[user_id],
     in_use |-> \E t \in DOMAIN w.shared_tasks :
                    /\ w.shared_tasks[t].user_id = user_id
                    /\ w.shared_tasks[t].status = "running"
                    /\ file_id \in Elems(w.shared_tasks[t].file_ids),
     changed |-> w1.files # w.files \/ w1.disk # w.disk]

\* POST /start_test; a request refused with 403 or 500 changes nothing
StartTest ==
    /\ web.pc = "ready"
    /\ web.next_task <= web.limit
    /\ \E user_id \in DOMAIN web.files, file_ids \in FileIdLists,
          config_missing \in Faults(web) :
         IF \E f \in Elems(file_ids) : f \notin web.files[user_id]
         THEN web' = web
         ELSE IF ~web.config_loaded /\ config_missing
         THEN web' = web
         ELSE LET task_id == web.next_task
                  task_info == [task_id |-> task_id, status |-> "pending", progress |-> 0,
                                file_ids |-> file_ids, user_id |-> user_id]
              IN  web' = start_task(
                      save_user_task([web EXCEPT !.config_loaded = TRUE, !.next_task = @ + 1],
                                     user_id, task_id, task_info),
                      task_id)
    /\ UNCHANGED <<agent_vars, grader_vars, scorer_vars, conc_vars, clarifier, report, human,
                   remind, auth>>

\* run_multi_model_evaluation from its start to the await of the benchmark,
\* lines 463-505, inside wrapped_coro
CoroutineStart(task_id) ==
    /\ web.pc = "ready"
    /\ task_id \in DOMAIN web.coro
    /\ web.coro[task_id] = "scheduled"
    /\ \E unreadable \in Faults(web) :
         IF task_id \notin DOMAIN web.shared_tasks
         THEN web' = [web EXCEPT !.coro[task_id] = "finished"]
         ELSE LET user_id == web.shared_tasks[task_id].user_id
                  file_ids == web.shared_tasks[task_id].file_ids
              IN  IF merge_raises(web, user_id, file_ids, unreadable)
                  THEN web' = [update_task_each(web, user_id, task_id,
                                   << [status |-> "running", progress |-> 10],
                                      [progress |-> 20],
                                      [status |-> "failed", error |-> TRUE] >>)
                               EXCEPT !.coro[task_id] = "finished"]
                  ELSE web' = [update_task_each(web, user_id, task_id,
                                   << [status |-> "running", progress |-> 10],
                                      [progress |-> 20], [progress |-> 30],
                                      [progress |-> 40] >>)
                               EXCEPT !.coro[task_id] = "evaluating"]
    /\ UNCHANGED <<agent_vars, grader_vars, scorer_vars, conc_vars, clarifier, report, human,
                   remind, auth>>

\* run_multi_model_evaluation from the return of the benchmark to its end,
\* lines 506-554: the evaluation returns or raises, and os.remove of the
\* combined file may raise after the final update
EvaluationEnds(task_id) ==
    /\ web.pc = "ready"
    /\ task_id \in DOMAIN web.coro
    /\ web.coro[task_id] = "evaluating"
    /\ \E raised \in Faults(web), remove_raises \in Faults(web) :
         LET user_id == web.shared_tasks[task_id].user_id
         IN  web' = [update_task_each(web, user_id, task_id,
                         IF raised
                         THEN << [status |-> "failed", error |-> TRUE] >>
                         ELSE IF remove_raises
                         THEN << [progress |-> 90],
                                 [status |-> "completed", progress |-> 100],
                                 [status |-> "failed", error |-> TRUE] >>
                         ELSE << [progress |-> 90],
                                 [status |-> "completed", progress |-> 100] >>)
                     EXCEPT !.coro[task_id] = "finished"]
    /\ UNCHANGED <<agent_vars, grader_vars, scorer_vars, conc_vars, clarifier, report, human,
                   remind, auth>>

\* the done callback of start_task, lines 83-88
Cleanup(task_id) ==
    /\ web.pc = "ready"
    /\ task_id \in DOMAIN web.coro
    /\ web.coro[task_id] = "finished"
    /\ task_id \in web.running_tasks
    /\ web' = [web EXCEPT !.running_tasks = unregister(@, task_id)]
    /\ UNCHANGED <<agent_vars, grader_vars, scorer_vars, conc_vars, clarifier, report, human,
                   remind, auth>>

\* DELETE /files/{file_id}
DeleteUserFile ==
    /\ web.pc = "ready"
    /\ \E user_id \in DOMAIN web.files, file_id \in FileIds, remove_raises \in Faults(web) :
         LET respond(code, w1) ==
                 [w1 EXCEPT !.last = <<DeleteSeen(web, user_id, file_id, code, w1)>>]
         IN  IF file_id \notin web.files[user_id]
             THEN web' = respond(404, web)
             ELSE IF file_in_running_task(web.user_tasks[user_id], file_id)
             THEN web' = respond(400, web)
             ELSE IF file_id \in web.disk /\ remove_raises
             THEN web' = respond(500, web)
             ELSE web' = respond(200, [web EXCEPT !.disk = @ \ { file_id },
                                                 !.files[user_id] = @ \ { file_id }])
    /\ UNCHANGED <<agent_vars, grader_vars, scorer_vars, conc_vars, clarifier, report, human,
                   remind, auth>>

\* the service with the users and their files given, before any task; limit
\* bounds the number of start_test requests looked at
WebStart(files, limit, faults) ==
    [pc |-> "ready", limit |-> limit, faults |-> faults, config_loaded |-> FALSE,
     files |-> files, disk |-> UNION { files[u] : u \in DOMAIN files },
     user_tasks |-> [u \in DOMAIN files |-> <<>>], shared_tasks |-> <<>>,
     running_tasks |-> {}, coro |-> <<>>, next_task |-> 1, trace |-> <<>>,
     last |-> <<>>]

OthersIdle ==
    /\ AgentIdle /\ ScorerIdle /\ ConcIdle /\ ClarifierIdle /\ ReportIdle /\ HumanIdle
    /\ RemindIdle /\ AuthIdle
    /\ g_pc = "idle" /\ judge = [kind |-> "none"] /\ score = 0

\* user u1 has uploaded f1
WebInit ==
    /\ OthersIdle
    /\ web = WebStart([u \in UserIds |-> IF u = "u1" THEN { "f1" } ELSE {}], MaxTasks, TRUE)

\* one user, nothing uploaded, nothing failing, one request more than the
\* slots reported
TaskManagerInit ==
    /\ OthersIdle
    /\ web = WebStart([u \in { "u1" } |-> {}], max_concurrent_tasks + 1, FALSE)

CoroutineStep ==
    \E task_id \in 1..(max_concurrent_tasks + 1) :
        CoroutineStart(task_id) \/ EvaluationEnds(task_id) \/ Cleanup(task_id)

WebNext == StartTest \/ DeleteUserFile \/ CoroutineStep

SpecWeb == WebInit /\ [][WebNext]_vars

\* one user, nothing uploaded
WebFairInit ==
    /\ OthersIdle
    /\ web = WebStart([u \in { "u1" } |-> {}], MaxTasks, TRUE)

\* the event loop runs every coroutine and callback that is ready
SpecWebFair == WebFairInit /\ [][WebNext]_vars /\ WF_vars(CoroutineStep)

SpecTaskManager == TaskManagerInit /\ [][WebNext]_vars

\* C34 as stated: at most 5 evaluation tasks run at the same time: the number
\* of entries of TaskManager.running_tasks never exceeds the 5 that
\* /system/status reports as max_concurrent_tasks.
C34_AtMostFiveRunning ==
    web.pc = "ready" => Cardinality(web.running_tasks) <= max_concurrent_tasks

\* the order of the statuses of a task
StatusStep(a, b) ==
    \/ a = b
    \/ a = "pending" /\ b = "running"
    \/ a = "running" /\ b \in { "completed", "failed" }

\* C37 as stated: the status of a task only moves pending, running, completed
\* or pending, running, failed; a completed or failed task keeps its status;
\* progress never decreases and is 100 exactly when the status is completed;
\* the user's copy and the shared copy of a task show the same status.
C37_TaskLifecycle ==
    web.pc = "ready" =>
        \A task_id \in DOMAIN web.trace :
            LET tr == web.trace[task_id]
                user_id == web.shared_tasks[task_id].user_id
            IN  /\ tr[1].status = "pending"
                /\ \A i \in 1..(Len(tr) - 1) :
                     /\ StatusStep(tr[i].status, tr[i + 1].status)
                     /\ tr[i].progress <= tr[i + 1].progress
                /\ \A i \in DOMAIN tr : (tr[i].progress = 100) <=> (tr[i].status = "completed")
                /\ task_id \in DOMAIN web.user_tasks[user_id]
                /\ web.user_tasks[user_id][task_id].status = web.shared_tasks[task_id].status

\* a task is over: completed or failed, and no longer in running_tasks
Over(task_id) ==
    /\ task_id \in DOMAIN web.shared_tasks
    /\ web.shared_tasks[task_id].status \in { "completed", "failed" }
    /\ task_id \notin web.running_tasks
    /\ web.coro[task_id] = "finished"

\* C38: every task that start_test started is eventually completed or failed
\* and then removed from running_tasks, given that the evaluation returns or
\* raises; none stays pending or running for ever, and none stays in
\* running_tasks once its coroutine has finished.
C38_TasksEnd ==
    \A task_id \in 1..MaxTasks :
        (web.pc = "ready" /\ task_id \in DOMAIN web.coro) ~> [](Over(task_id))

C38_Witness ==
    /\ web.pc = "ready"
    /\ DOMAIN web.coro = { 1, 2 }
    /\ Over(1) /\ Over(2)
    /\ web.shared_tasks[1].status = "completed"
    /\ web.shared_tasks[2].status = "failed"
    /\ web.shared_tasks[2].progress = 40

\* C39: a delete request for a file listed in the file_ids of a running task
\* of its owner is refused, and neither the file record nor the stored file
\* is removed; a delete request for a file id that is not among the
\* requesting user's files is refused and changes nothing.
C39_DeleteRefused ==
    web.pc = "ready" =>
        \A i \in DOMAIN web.last :
            LET seen == web.last[i]
            IN  /\ (seen.listed /\ seen.in_use) => (seen.code = 400 /\ ~seen.changed)
                /\ ~seen.listed => (seen.code = 404 /\ ~seen.changed)

C39_Witness ==
    /\ web.pc = "ready"
    /\ web.last # <<>>
    /\ web.last[1].listed /\ web.last[1].in_use
    /\ web.last[1].code = 400
    /\ "f1" \in web.files["u1"] /\ "f1" \in web.disk

====
